---- MODULE Spec2Model ----
(***************************************************************************)
(* A model of the change-safety pipeline of binah-aip's autonomous         *)
(* ontology subsystem (services/binah-aip/app/autonomous_ontology):        *)
(* the approval workflow engine, the sandbox manager, the query replay     *)
(* engine, the impact analyzer and the orchestrator that sequences them.   *)
(*                                                                         *)
(* Timestamps that no code path reads back (created_at, updated_at,        *)
(* approved_at, comments) are left out of the records; the clock `now`     *)
(* stands for datetime.utcnow(), in hours.                                 *)
(***************************************************************************)
EXTENDS Integers, Sequences, FiniteSets, TLC

(***************************************************************************)
(* Bounds of the model.                                                    *)
(***************************************************************************)
MaxApprovals == 4
MaxTime == 1
MaxQueries == 2
MaxNotes == 6
MaxSamples == 2
MaxIsoApprovals == 1
MaxTraining == 1
MaxSimulations == 2
MaxCreates == 2
SandboxTTL == 0

(***************************************************************************)
(* Input alphabets.                                                        *)
(***************************************************************************)
Proposals == {"r1"}
\* the (approver_id, approver_role) pairs submit_approval is called with
Submitters == {<<"alice", "reviewer">>, <<"bob", "reviewer">>, <<"carol", "architect">>}

\* models.py RiskLevel
RiskLevels == {"safe", "low", "medium", "high", "critical"}

\* models.py ApprovalStatus (PENDING is handled exactly like
\* CHANGES_REQUESTED by every code path and is not drawn as an input)
ApprovalStatuses == {"approved", "rejected", "changes_requested"}

\* Optional[datetime] = None
NoTime == -1

\* timedelta(hours=1) in submit_approval
ScheduleDelayHours == 1

VARIABLES
    active_workflows,   \* WorkflowEngine.active_workflows: id -> WorkflowState
    now,                \* datetime.utcnow(), in hours
    result,             \* what the last call did: its name, id, argument, outcome
    sim_input,          \* the recommendation and the query log under analysis
    replay_results,     \* QueryReplayEngine.replay_queries' result
    breaking_changes,   \* QueryReplayEngine.detect_breaking_changes' result
    report,             \* the ImpactReport last produced
    replay_run,         \* a replay_queries call in progress: entries done, and its state
    active_sandboxes,   \* SandboxManager.active_sandboxes: sandbox id -> sandbox info
    containers,         \* the sandbox containers that are running: name -> container id
    sim_run,            \* the last simulation run: its handle and the calls it made
    executions,         \* per recommendation id, what its last execution produced
    deployments,        \* per recommendation id, the Deployment being rolled out
    submit_calls,       \* the submit_approval calls issued together, and where each is
    create_calls,       \* the create_sandbox calls that await their environment
    sim_calls,          \* the simulate_recommendation calls in flight, and where each is suspended
    feedback,           \* what the last feedback-collector call was given and gave
    ml                  \* binah-ml: the train requests in their pipeline, the work done, the last response

wfVars == <<active_workflows>>
simVars == <<sim_input, replay_results, breaking_changes, report, replay_run>>
sbVars == <<active_sandboxes, containers, sim_run>>
exVars == <<executions, deployments>>
ccVars == <<submit_calls, create_calls, sim_calls>>
fbVars == <<feedback>>
mlVars == <<ml>>
vars == <<active_workflows, now, result, sim_input, replay_results, breaking_changes,
          report, replay_run, active_sandboxes, containers, sim_run, executions, deployments,
          submit_calls, create_calls, sim_calls, feedback, ml>>

NoCall == [op |-> "none", id |-> "none", arg |-> "none", outcome |-> "none"]

Call(op, id, arg, outcome) ==
    [op |-> op, id |-> id, arg |-> arg, outcome |-> outcome]

(***************************************************************************)
(* Workflow engine (workflow/workflow_engine.py).                          *)
(***************************************************************************)

\* Approval(approver_id, approver_role, status)
Approval(approver_id, approver_role, status) ==
    [approver_id |-> approver_id, approver_role |-> approver_role, status |-> status]

\* WorkflowState(recommendation_id, current_state, approvals,
\*               required_approvals, scheduled_execution)
WorkflowState(id, state, approvals, required, scheduled) ==
    [recommendation_id |-> id,
     current_state |-> state,
     approvals |-> approvals,
     required_approvals |-> required,
     scheduled_execution |-> scheduled]

DictPut_Replace(d, k, v) == [x \in {k} |-> v]

\* dict assignment d[k] = v
DictPut(d, k, v) ==
    [x \in (DOMAIN d) \cup {k} |-> IF x = k THEN v ELSE d[x]]

\* sum(1 for a in approvals if a.status == status)
CountStatus(approvals, status) ==
    Cardinality({i \in 1..Len(approvals) : approvals[i].status = status})

DetermineRequiredApprovals_HighAsMedium(risk_level) ==
    CASE risk_level = "safe" -> 0
      [] risk_level = "low" -> 1
      [] risk_level = "medium" -> 2
      [] risk_level = "high" -> 2
      [] risk_level = "critical" -> 4
      [] OTHER -> 2

\* WorkflowEngine._determine_required_approvals
DetermineRequiredApprovals(risk_level) ==
    CASE risk_level = "safe" -> 0
      [] risk_level = "low" -> 1
      [] risk_level = "medium" -> 2
      [] risk_level = "high" -> 3
      [] risk_level = "critical" -> 4
      [] OTHER -> 2

\* WorkflowEngine._auto_approve: a system-authored approval record, phase approved
AutoApprove(workflow) ==
    [workflow EXCEPT
        !.approvals = Append(@, Approval("system", "auto-approval", "approved")),
        !.current_state = "approved"]

RouteByRisk_LowAutoApproved(workflow, risk_level) ==
    IF risk_level \in {"safe", "low"} THEN AutoApprove(workflow) ELSE workflow

\* WorkflowEngine.start_workflow, the routing on the risk level: only the safe
\* tier changes the workflow; the other tiers only send approval requests
RouteByRisk(workflow, risk_level) ==
    IF risk_level = "safe" THEN AutoApprove(workflow) ELSE workflow

\* WorkflowEngine.start_workflow
StartWorkflow(id, risk_level) ==
    LET workflow == WorkflowState(id, "review", <<>>,
                                  DetermineRequiredApprovals(risk_level), NoTime)
    IN /\ active_workflows' = DictPut(active_workflows, id, RouteByRisk(workflow, risk_level))
       /\ result' = Call("start_workflow", id, risk_level, "returned")
       /\ UNCHANGED <<now, simVars, sbVars, exVars, ccVars, fbVars, mlVars>>

\* what a delivery by the notification service the engine was constructed with
\* can do: NotificationService as it stands only logs and returns; a service
\* that talks to a mail or chat server may raise
Deliveries == {"delivered", "raises"}

\* WorkflowEngine.start_workflow with a notification service whose delivery
\* may fail.  The workflow is registered and routed first; send_notification
\* (safe) or send_approval_request (the other tiers) is awaited last, outside
\* any try, so what it raises leaves start_workflow
StartWorkflowNotified(id, risk_level, delivery) ==
    LET workflow == WorkflowState(id, "review", <<>>,
                                  DetermineRequiredApprovals(risk_level), NoTime)
    IN /\ active_workflows' = DictPut(active_workflows, id, RouteByRisk(workflow, risk_level))
       /\ result' = Call("start_workflow", id, risk_level,
                         IF delivery = "raises" THEN "raised" ELSE "returned")
       /\ UNCHANGED <<now, simVars, sbVars, exVars, ccVars, fbVars, mlVars>>

DecidePhase_ApprovedFirst(workflow, t) ==
    LET approved_count == CountStatus(workflow.approvals, "approved")
        rejected_count == CountStatus(workflow.approvals, "rejected")
    IN IF approved_count >= workflow.required_approvals
       THEN [workflow EXCEPT !.current_state = "approved",
                             !.scheduled_execution = t + ScheduleDelayHours]
       ELSE IF rejected_count > 0
       THEN [workflow EXCEPT !.current_state = "rejected"]
       ELSE workflow

DecidePhase_OffByOne(workflow, t) ==
    LET approved_count == CountStatus(workflow.approvals, "approved")
        rejected_count == CountStatus(workflow.approvals, "rejected")
    IN IF rejected_count > 0
       THEN [workflow EXCEPT !.current_state = "rejected"]
       ELSE IF approved_count + 1 >= workflow.required_approvals
       THEN [workflow EXCEPT !.current_state = "approved",
                             !.scheduled_execution = t + ScheduleDelayHours]
       ELSE workflow

\* WorkflowEngine.submit_approval, the count of the recorded decisions and
\* the phase it sets
DecidePhase(workflow, t) ==
    LET approved_count == CountStatus(workflow.approvals, "approved")
        rejected_count == CountStatus(workflow.approvals, "rejected")
    IN IF rejected_count > 0
       THEN [workflow EXCEPT !.current_state = "rejected"]
       ELSE IF approved_count >= workflow.required_approvals
       THEN [workflow EXCEPT !.current_state = "approved",
                             !.scheduled_execution = t + ScheduleDelayHours]
       ELSE workflow

\* WorkflowEngine.submit_approval, the append of the approval record
RecordApproval(workflow, approver_id, approver_role, status) ==
    [workflow EXCEPT !.approvals = Append(@, Approval(approver_id, approver_role, status))]

SubmitApproval_CreatesOnMiss(id, approver_id, approver_role, status) ==
    LET known == IF id \in DOMAIN active_workflows
                 THEN active_workflows
                 ELSE DictPut(active_workflows, id, WorkflowState(id, "review", <<>>, 1, NoTime))
    IN /\ Len(known[id].approvals) < MaxApprovals
       /\ active_workflows' =
              [known EXCEPT
                  ![id] = DecidePhase(RecordApproval(@, approver_id, approver_role, status), now)]
       /\ result' = Call("submit_approval", id, status, "returned")
       /\ UNCHANGED <<now, simVars, sbVars, exVars, ccVars, fbVars, mlVars>>

\* WorkflowEngine.submit_approval
SubmitApproval(id, approver_id, approver_role, status) ==
    IF id \notin DOMAIN active_workflows
    THEN \* raise ValueError("Workflow not found ...")
         /\ result' = Call("submit_approval", id, status, "ValueError")
         /\ UNCHANGED <<active_workflows, now, simVars, sbVars, exVars, ccVars, fbVars, mlVars>>
    ELSE /\ Len(active_workflows[id].approvals) < MaxApprovals
         /\ active_workflows' =
                [active_workflows EXCEPT
                    ![id] = DecidePhase(RecordApproval(@, approver_id, approver_role, status), now)]
         /\ result' = Call("submit_approval", id, status, "returned")
         /\ UNCHANGED <<now, simVars, sbVars, exVars, ccVars, fbVars, mlVars>>

\* the suspension points of submit_approval: where a call that the event loop
\* resumes at `pc` gives control back next.  Its body has no await, so a call
\* runs from its start to its return in one piece
NextSuspension_AfterAppend(pc) == IF pc = "pending" THEN "recorded" ELSE "done"

NextSuspension(pc) == "done"

\* a submit_approval call in flight: its arguments, where it is, and when it
\* last ran
SubmitCall(approver_id, approver_role, status, pc, ran_at) ==
    [approver_id |-> approver_id, approver_role |-> approver_role, status |-> status,
     pc |-> pc, ran_at |-> ran_at]

\* the submit_approval calls issued together for one proposal, with the
\* WorkflowState they were issued on
SubmitCalls(id, base, calls) == [id |-> id, base |-> base, calls |-> calls]

NoCalls == SubmitCalls("none", [pending |-> TRUE], <<>>)

\* what one submit_approval call does to a WorkflowState when it runs whole
SubmitEffect(workflow, call) ==
    DecidePhase(RecordApproval(workflow, call.approver_id, call.approver_role, call.status),
                call.ran_at)

\* two submit_approval calls for one proposal are issued at the same time
\* (two requests on the event loop, or asyncio.gather of the two coroutines)
SubmitConcurrently(id, first, second) ==
    /\ \A i \in 1..Len(submit_calls.calls) : submit_calls.calls[i].pc = "done"
    /\ id \in DOMAIN active_workflows
    /\ Len(active_workflows[id].approvals) + 2 <= MaxApprovals
    /\ submit_calls' = SubmitCalls(id, active_workflows[id],
                                   <<SubmitCall(first[1], first[2], first[3], "pending", NoTime),
                                     SubmitCall(second[1], second[2], second[3], "pending", NoTime)>>)
    /\ UNCHANGED <<active_workflows, now, result, simVars, sbVars, exVars, create_calls, sim_calls, fbVars, mlVars>>

\* the event loop runs one of the issued calls, from where it is to its next
\* suspension point: the append of the approval record when it starts, the
\* count and the phase when it gets to its return
SubmitResume(i) ==
    LET call == submit_calls.calls[i]
        id == submit_calls.id
        to == NextSuspension(call.pc)
        recorded == IF call.pc = "pending"
                    THEN RecordApproval(active_workflows[id], call.approver_id,
                                        call.approver_role, call.status)
                    ELSE active_workflows[id]
        workflow == IF to = "done" THEN DecidePhase(recorded, now) ELSE recorded
    IN /\ call.pc # "done"
       /\ active_workflows' = [active_workflows EXCEPT ![id] = workflow]
       /\ submit_calls' = [submit_calls EXCEPT !.calls[i].pc = to, !.calls[i].ran_at = now]
       /\ result' = IF to = "done"
                    THEN Call("submit_approval", id, call.status, "returned")
                    ELSE result
       /\ UNCHANGED <<now, simVars, sbVars, exVars, create_calls, sim_calls, fbVars, mlVars>>

\* the passage of time between calls
Tick ==
    /\ now < MaxTime
    /\ now' = now + 1
    /\ UNCHANGED <<active_workflows, result, simVars, sbVars, exVars, ccVars, fbVars, mlVars>>

(***************************************************************************)
(* Exact fractions, for the percentages and the risk score, which the code *)
(* computes in floating point: [n |-> numerator, d |-> denominator > 0],   *)
(* kept in lowest terms.                                                   *)
(***************************************************************************)
RECURSIVE Gcd(_, _)
Gcd(a, b) == IF b = 0 THEN a ELSE Gcd(b, a % b)

AbsInt(x) == IF x < 0 THEN -x ELSE x

Frac(n, d) ==
    LET g == Gcd(AbsInt(n), d)
    IN [n |-> n \div g, d |-> d \div g]

FromInt(k) == [n |-> k, d |-> 1]
FAdd(x, y) == Frac(x.n * y.d + y.n * x.d, x.d * y.d)
FSub(x, y) == Frac(x.n * y.d - y.n * x.d, x.d * y.d)
FDivInt(x, k) == Frac(x.n, x.d * k)
FMulInt(x, k) == Frac(x.n * k, x.d)
FLess(x, y) == x.n * y.d < y.n * x.d
FAbs(x) == [n |-> AbsInt(x.n), d |-> x.d]
FMin(x, y) == IF FLess(y, x) THEN y ELSE x

RECURSIVE FSum(_)
FSum(s) == IF s = <<>> THEN FromInt(0) ELSE FAdd(Head(s), FSum(Tail(s)))

(***************************************************************************)
(* Query replay engine (simulation/query_replay_engine.py).                *)
(* A query-log entry carries its id, its recorded duration_ms and, as the  *)
(* outcome of running it against the sandbox, the measured sandbox_ms and  *)
(* whether the run raised.                                                 *)
(***************************************************************************)
BaselineMs == {0, 50, 100}
SandboxMs == {25, 95, 100, 250}

QueryEntry(query_id, duration_ms, sandbox_ms, raises) ==
    [query_id |-> query_id, duration_ms |-> duration_ms,
     sandbox_ms |-> sandbox_ms, raises |-> raises]

\* QueryReplayEngine._replay_single_query
ReplaySingleQuery(query_entry) ==
    IF query_entry.raises
    THEN [success |-> FALSE,
          query_id |-> query_entry.query_id,
          error |-> [query_id |-> query_entry.query_id, breaking_change |-> TRUE]]
    ELSE LET baseline_duration == query_entry.duration_ms
             duration_ms == query_entry.sandbox_ms
             perf_change == IF baseline_duration > 0
                            THEN Frac((duration_ms - baseline_duration) * 100, baseline_duration)
                            ELSE FromInt(0)
         IN [success |-> TRUE,
             query_id |-> query_entry.query_id,
             performance |-> [query_id |-> query_entry.query_id,
                              baseline_ms |-> baseline_duration,
                              sandbox_ms |-> duration_ms,
                              change_percent |-> perf_change,
                              improved |-> FLess(perf_change, FromInt(0))]]

\* QueryReplayEngine._calculate_summary (the fields the analyzer reads)
CalculateSummary(performance_changes) ==
    IF performance_changes = <<>>
    THEN [average_change_percent |-> FromInt(0),
          queries_improved |-> 0,
          queries_degraded |-> 0]
    ELSE LET change_percents == [i \in 1..Len(performance_changes) |->
                                     performance_changes[i].change_percent]
             improved_count == Cardinality({i \in 1..Len(performance_changes) :
                                                performance_changes[i].improved})
         IN [average_change_percent |-> FDivInt(FSum(change_percents), Len(change_percents)),
             queries_improved |-> improved_count,
             queries_degraded |-> Len(performance_changes) - improved_count]

IsSuccess(r) == r.success
IsFailure(r) == ~r.success

ReplayQueries_AbortOnFailure(query_log) ==
    LET all == [i \in 1..Len(query_log) |-> ReplaySingleQuery(query_log[i])]
        stop == IF \E i \in 1..Len(all) : ~all[i].success
                THEN CHOOSE i \in 1..Len(all) :
                        ~all[i].success /\ \A j \in 1..(i - 1) : all[j].success
                ELSE Len(all)
        results == SubSeq(all, 1, stop)
        ok == SelectSeq(results, IsSuccess)
        bad == SelectSeq(results, IsFailure)
        performance_changes == [i \in 1..Len(ok) |-> ok[i].performance]
        errors == [i \in 1..Len(bad) |-> bad[i].error]
    IN [total_queries |-> Len(query_log),
        successful |-> Len(ok),
        failed |-> Len(bad),
        performance_changes |-> performance_changes,
        errors |-> errors,
        summary |-> CalculateSummary(performance_changes)]

\* QueryReplayEngine.replay_queries
ReplayQueries(query_log) ==
    LET results == [i \in 1..Len(query_log) |-> ReplaySingleQuery(query_log[i])]
        ok == SelectSeq(results, IsSuccess)
        bad == SelectSeq(results, IsFailure)
        performance_changes == [i \in 1..Len(ok) |-> ok[i].performance]
        errors == [i \in 1..Len(bad) |-> bad[i].error]
    IN [total_queries |-> Len(query_log),
        successful |-> Len(ok),
        failed |-> Len(bad),
        performance_changes |-> performance_changes,
        errors |-> errors,
        summary |-> CalculateSummary(performance_changes)]

BreakingChange(type, severity, query_id) ==
    [type |-> type, severity |-> severity, query_id |-> query_id]

IsSevereDegradation_AtDouble(perf) == ~FLess(perf.change_percent, FromInt(100))

\* detect_breaking_changes: `perf["change_percent"] > 100`
IsSevereDegradation(perf) == FLess(FromInt(100), perf.change_percent)

\* QueryReplayEngine.detect_breaking_changes
DetectBreakingChanges(replay) ==
    LET slow == SelectSeq(replay.performance_changes, IsSevereDegradation)
    IN [i \in 1..Len(replay.errors) |->
            BreakingChange("query_failure", "critical", replay.errors[i].query_id)]
       \o
       [i \in 1..Len(slow) |->
            BreakingChange("performance_degradation", "high", slow[i].query_id)]

(***************************************************************************)
(* Impact analyzer (simulation/impact_analyzer.py).                        *)
(* A recommendation carries what the analyzer reads of it: whether its     *)
(* migration strategy is required, how many breaking-change notes its      *)
(* implementation declares, and the entities its usage metrics name.       *)
(***************************************************************************)
Recommendation(id, migration_required, declared_breaking, affected_entities) ==
    [id |-> id,
     migration_required |-> migration_required,
     declared_breaking |-> declared_breaking,
     affected_entities |-> affected_entities]

\* ImpactAnalyzer._extract_affected_entities
ExtractAffectedEntities(recommendation) == recommendation.affected_entities

IsQueryFailure(bc) == bc.type = "query_failure"
IsCritical(bc) == bc.severity = "critical"

CalculateRiskScore_NoCap(recommendation, compatibility, performance, bcs) ==
    LET critical_failures == Len(SelectSeq(bcs, IsCritical))
        other_failures == compatibility.breaking_changes - critical_failures
        s1 == IF compatibility.breaking_changes > 0
              THEN FromInt(critical_failures * 25 + other_failures * 10)
              ELSE FromInt(0)
        s2 == IF FLess(performance.average_improvement, FromInt(0))
              THEN FAdd(s1, FDivInt(FAbs(performance.average_improvement), 10))
              ELSE s1
        s3 == IF performance.queries_tested > 0
              THEN FAdd(s2, Frac(performance.queries_degraded * 20, performance.queries_tested))
              ELSE s2
        s4 == IF recommendation.migration_required THEN FAdd(s3, FromInt(15)) ELSE s3
        s5 == FAdd(s4, FromInt(recommendation.declared_breaking * 5))
    IN IF Len(compatibility.affected_entities) > 3 THEN FAdd(s5, FromInt(10)) ELSE s5

CalculateRiskScore_NoDegradedRate(recommendation, compatibility, performance, bcs) ==
    LET critical_failures == Len(SelectSeq(bcs, IsCritical))
        other_failures == compatibility.breaking_changes - critical_failures
        s1 == IF compatibility.breaking_changes > 0
              THEN FromInt(critical_failures * 25 + other_failures * 10)
              ELSE FromInt(0)
        s2 == IF FLess(performance.average_improvement, FromInt(0))
              THEN FAdd(s1, FDivInt(FAbs(performance.average_improvement), 10))
              ELSE s1
        s4 == IF recommendation.migration_required THEN FAdd(s2, FromInt(15)) ELSE s2
        s5 == FAdd(s4, FromInt(recommendation.declared_breaking * 5))
        s6 == IF Len(compatibility.affected_entities) > 3 THEN FAdd(s5, FromInt(10)) ELSE s5
    IN FMin(s6, FromInt(100))

\* ImpactAnalyzer._calculate_risk_score
CalculateRiskScore(recommendation, compatibility, performance, bcs) ==
    LET critical_failures == Len(SelectSeq(bcs, IsCritical))
        other_failures == compatibility.breaking_changes - critical_failures
        s1 == IF compatibility.breaking_changes > 0
              THEN FromInt(critical_failures * 25 + other_failures * 10)
              ELSE FromInt(0)
        s2 == IF FLess(performance.average_improvement, FromInt(0))
              THEN FAdd(s1, FDivInt(FAbs(performance.average_improvement), 10))
              ELSE s1
        s3 == IF performance.queries_tested > 0
              THEN FAdd(s2, Frac(performance.queries_degraded * 20, performance.queries_tested))
              ELSE s2
        s4 == IF recommendation.migration_required THEN FAdd(s3, FromInt(15)) ELSE s3
        s5 == FAdd(s4, FromInt(recommendation.declared_breaking * 5))
        s6 == IF Len(compatibility.affected_entities) > 3 THEN FAdd(s5, FromInt(10)) ELSE s5
    IN FMin(s6, FromInt(100))

DetermineRiskLevel_Inclusive(risk_score) ==
    IF ~FLess(FromInt(20), risk_score) THEN "safe"
    ELSE IF ~FLess(FromInt(40), risk_score) THEN "low"
    ELSE IF ~FLess(FromInt(60), risk_score) THEN "medium"
    ELSE IF ~FLess(FromInt(80), risk_score) THEN "high"
    ELSE "critical"

\* ImpactAnalyzer._determine_risk_level
DetermineRiskLevel(risk_score) ==
    IF FLess(risk_score, FromInt(20)) THEN "safe"
    ELSE IF FLess(risk_score, FromInt(40)) THEN "low"
    ELSE IF FLess(risk_score, FromInt(60)) THEN "medium"
    ELSE IF FLess(risk_score, FromInt(80)) THEN "high"
    ELSE "critical"

MakeRecommendation_NoFailureRule(risk_score, compatibility, performance) ==
    IF FLess(performance.average_improvement, FromInt(-50))
    THEN "reject"
    ELSE IF FLess(risk_score, FromInt(20)) /\ FLess(FromInt(0), performance.average_improvement)
    THEN "approve"
    ELSE "needs_review"

\* ImpactAnalyzer._make_recommendation
MakeRecommendation(risk_score, compatibility, performance) ==
    IF compatibility.breaking_changes > 0 /\ compatibility.failing_queries # <<>>
    THEN "reject"
    ELSE IF FLess(performance.average_improvement, FromInt(-50))
    THEN "reject"
    ELSE IF FLess(risk_score, FromInt(20)) /\ FLess(FromInt(0), performance.average_improvement)
    THEN "approve"
    ELSE "needs_review"

\* ImpactAnalyzer.analyze_impact
AnalyzeImpact(recommendation, replay, bcs) ==
    LET failures == SelectSeq(bcs, IsQueryFailure)
        compatibility ==
            [breaking_changes |-> Len(bcs),
             failing_queries |-> [i \in 1..Len(failures) |-> failures[i].query_id],
             affected_entities |-> ExtractAffectedEntities(recommendation)]
        performance ==
            [queries_tested |-> replay.total_queries,
             average_improvement |-> replay.summary.average_change_percent,
             queries_improved |-> replay.summary.queries_improved,
             queries_degraded |-> replay.summary.queries_degraded]
        risk_score == CalculateRiskScore(recommendation, compatibility, performance, bcs)
    IN [recommendation_id |-> recommendation.id,
        compatibility |-> compatibility,
        performance |-> performance,
        migration_required |-> recommendation.migration_required,
        risk_score |-> risk_score,
        risk_level |-> DetermineRiskLevel(risk_score),
        recommendation_action |-> MakeRecommendation(risk_score, compatibility, performance)]

(***************************************************************************)
(* The inputs of an analysis: recommendations and query logs.              *)
(***************************************************************************)
AffectedChoices == {<<>>, <<"Property", "Owner">>,
                    <<"Property", "Owner", "Listing", "Agent">>}

Recommendations ==
    {Recommendation(id, m, n, a) :
        id \in Proposals, m \in BOOLEAN, n \in 0..MaxNotes, a \in AffectedChoices}

\* what running one query gives: the duration measured, or an exception (the
\* durations of an entry whose run raises are read by nothing)
Outcomes ==
    {[duration_ms |-> b, sandbox_ms |-> d, raises |-> FALSE] :
        b \in BaselineMs, d \in SandboxMs}
    \cup {[duration_ms |-> 100, sandbox_ms |-> 25, raises |-> TRUE]}

\* QueryReplayEngine.load_query_log: entries query-0, query-1, ... in order
QueryLogs ==
    UNION {{[i \in 1..n |-> QueryEntry(i - 1, o[i].duration_ms, o[i].sandbox_ms, o[i].raises)] :
                o \in [1..n -> Outcomes]} : n \in 0..MaxQueries}

(***************************************************************************)
(* Sandbox manager (simulation/sandbox_manager.py).                        *)
(* A sandbox id is f"sandbox-{recommendation_id}-{int(timestamp)}": the    *)
(* pair of the recommendation id and the clock.  The container is named    *)
(* after the sandbox id, and the container runtime refuses a second        *)
(* running container of the same name.  Every container has an id of its   *)
(* own, which the registry entry keeps and destroy_sandbox looks up.       *)
(***************************************************************************)
Tenants == {"t1"}

SandboxId(recommendation_id, t) == <<recommendation_id, t>>

NoHandle == << >>

SandboxInfo(sandbox_id, container_id, recommendation_id, tenant_id, t) ==
    [sandbox_id |-> sandbox_id,
     container_id |-> container_id,
     recommendation_id |-> recommendation_id,
     tenant_id |-> tenant_id,
     created_at |-> t]

\* how containers.run can go: the container starts, or the call raises
RunOutcomes == {"ok", "run_error"}

\* what the polls of `await self._wait_for_neo4j(container)` see of a
\* container that runs: the ready line in its log, or no such line until the
\* timeout has passed
WaitOutcomes == {"ok", "timeout"}

\* how a destroy_sandbox call on a registered id can go: all of it succeeds;
\* containers.get or container.stop raises; shutil.rmtree raises
DestroyOutcomes == {"ok", "stop_error", "rmtree_error"}

\* dict deletion del d[k]
DictDel(d, k) == [x \in (DOMAIN d) \ {k} |-> d[x]]

\* containers.run(name=sandbox_id): how the docker daemon answers; it refuses
\* to start a container under a name that a container already has
DockerRun(running, sandbox_id, outcome) ==
    IF sandbox_id \in DOMAIN running THEN "run_error" ELSE outcome

\* container.id of a container that containers.run starts: docker gives it
\* an id that no other container has.  `used` are the ids that the program
\* still holds for the name (in the registry entry, in the calls in flight);
\* an id that nobody holds any more is as good as a new one
ContainerId(used) ==
    CHOOSE n \in 0..Cardinality(used) :
        n \notin used /\ \A m \in 0..(n - 1) : m \in used

\* the containers after containers.run(name=sandbox_id, detach=True)
StartContainer(running, sandbox_id, container_id) ==
    [x \in DOMAIN running \cup {sandbox_id} |->
        IF x = sandbox_id THEN container_id ELSE running[x]]

\* the containers after the container of that name stopped (remove=True
\* removes it)
StopContainer(running, sandbox_id) ==
    [x \in DOMAIN running \ {sandbox_id} |-> running[x]]

\* self.docker_client.containers.get(container_id) finds the container
\* (container.reload() does, for the container a call holds)
ContainerFound(running, sandbox_id, container_id) ==
    sandbox_id \in DOMAIN running /\ running[sandbox_id] = container_id

WaitForNeo4j_Ready(running, call, outcome) == outcome

\* `await self._wait_for_neo4j(container)`: every poll reloads the container
\* and reads its log inside a try that only logs, and sleeps 2 s.  For a
\* container that is gone (it exited, remove=True) reload raises at every
\* poll, so the wait ends with the TimeoutError
WaitForNeo4j(running, call, outcome) ==
    IF ContainerFound(running, call.sandbox_id, call.container_id) THEN outcome ELSE "timeout"

\* SandboxManager.create_sandbox after `await self._wait_for_neo4j`: the
\* registry when the call ends, how the wait went and the handle the call
\* returns (NoHandle when it raises; the except block logs and re-raises, it
\* stops no container).  `call` holds the id built before the await and the
\* container started, t is the clock when the wait is over: created_at is
\* read then
CreateSandboxEffect(registry, running, call, t, outcome) ==
    LET wait == WaitForNeo4j(running, call, outcome)
    IN IF wait = "ok"
       THEN [registry |-> DictPut(registry, call.sandbox_id,
                                  SandboxInfo(call.sandbox_id, call.container_id,
                                              call.recommendation_id, call.tenant_id, t)),
             wait |-> wait,
             handle |-> call.sandbox_id]
       ELSE [registry |-> registry, wait |-> wait, handle |-> NoHandle]

DestroySandboxEffect_StopByName(registry, running, sandbox_id, outcome) ==
    IF outcome = "stop_error" \/ sandbox_id \notin DOMAIN running
    THEN [registry |-> registry, running |-> running]
    ELSE IF outcome = "rmtree_error" \/ sandbox_id \notin DOMAIN registry
    THEN [registry |-> registry, running |-> StopContainer(running, sandbox_id)]
    ELSE [registry |-> DictDel(registry, sandbox_id),
          running |-> StopContainer(running, sandbox_id)]

\* SandboxManager.destroy_sandbox: the registry and the containers after the
\* call.  The container is looked up by the container_id of the registry
\* entry; when docker has no such container (NotFound) the except block
\* logs, as it does for the other errors
DestroySandboxEffect(registry, running, sandbox_id, outcome) ==
    IF sandbox_id \notin DOMAIN registry
    THEN [registry |-> registry, running |-> running]
    ELSE IF \/ outcome = "stop_error"
            \/ ~ContainerFound(running, sandbox_id, registry[sandbox_id].container_id)
    THEN [registry |-> registry, running |-> running]
    ELSE IF outcome = "rmtree_error"
    THEN [registry |-> registry, running |-> StopContainer(running, sandbox_id)]
    ELSE [registry |-> DictDel(registry, sandbox_id),
          running |-> StopContainer(running, sandbox_id)]

\* the container ids that the program holds for a sandbox id: the one of its
\* registry entry and those of the calls in flight that built the id
UsedContainerIds(sandbox_id) ==
    {active_sandboxes[x].container_id : x \in DOMAIN active_sandboxes \cap {sandbox_id}}
    \cup {call.container_id : call \in {c \in create_calls : c.sandbox_id = sandbox_id}}
    \cup {call.container_id : call \in {c \in sim_calls : c.sandbox_id = sandbox_id}}

\* a container stops by itself: Neo4j does not come up, or it fails later.
\* It was started with remove=True, so docker removes it; no call of the
\* program is involved, and a create_sandbox call that waits for it stays
\* suspended in its polls
ContainerExits(sandbox_id, container_id) ==
    /\ ContainerFound(containers, sandbox_id, container_id)
    /\ containers' = StopContainer(containers, sandbox_id)
    /\ UNCHANGED <<wfVars, now, result, simVars, active_sandboxes, sim_run, exVars, ccVars,
                   fbVars, mlVars>>

\* SandboxManager.destroy_sandbox
DestroySandbox(sandbox_id, outcome) ==
    LET e == DestroySandboxEffect(active_sandboxes, containers, sandbox_id, outcome)
    IN /\ active_sandboxes' = e.registry
       /\ containers' = e.running
       /\ result' = Call("destroy_sandbox", sandbox_id[1], outcome, "returned")
       /\ UNCHANGED <<wfVars, now, simVars, sim_run, exVars, ccVars, fbVars, mlVars>>

RECURSIVE DestroyAll(_, _, _, _)
DestroyAll(registry, running, ids, outcome_of) ==
    IF ids = {} THEN [registry |-> registry, running |-> running]
    ELSE LET sandbox_id == CHOOSE x \in ids : TRUE
             e == DestroySandboxEffect(registry, running, sandbox_id, outcome_of[sandbox_id])
         IN DestroyAll(e.registry, e.running, ids \ {sandbox_id}, outcome_of)

\* SandboxManager.cleanup_all: destroy_sandbox on every registered id
CleanupAll(outcome_of) ==
    LET e == DestroyAll(active_sandboxes, containers, DOMAIN active_sandboxes, outcome_of)
    IN /\ active_sandboxes' = e.registry
       /\ containers' = e.running
       /\ result' = Call("cleanup_all", "none", "none", "returned")
       /\ UNCHANGED <<wfVars, now, simVars, sim_run, exVars, ccVars, fbVars, mlVars>>

\* create_sandbox, one step per stretch between its suspension points.  Up
\* to its await: the id is built and containers.run starts the container,
\* or raises
CreateBegin(recommendation_id, tenant_id, outcome) ==
    LET sandbox_id == SandboxId(recommendation_id, now)
        container_id == ContainerId(UsedContainerIds(sandbox_id))
    IN /\ Cardinality(create_calls) < MaxCreates
       /\ IF DockerRun(containers, sandbox_id, outcome) = "run_error"
          THEN /\ result' = Call("create_sandbox", recommendation_id, "run_error", "raised")
               /\ UNCHANGED <<wfVars, now, simVars, sbVars, exVars, ccVars, fbVars, mlVars>>
          ELSE /\ containers' = StartContainer(containers, sandbox_id, container_id)
               /\ create_calls' = create_calls
                      \cup {SandboxInfo(sandbox_id, container_id, recommendation_id,
                                        tenant_id, now)}
               /\ result' = Call("create_sandbox", recommendation_id, "ok", "awaiting")
               /\ UNCHANGED <<wfVars, now, simVars, active_sandboxes, sim_run, exVars,
                              submit_calls, sim_calls, fbVars, mlVars>>

\* create_sandbox after `await self._wait_for_neo4j`: the environment is
\* ready and the call registers it and returns, or the wait timed out and the
\* call raises, leaving the container as it is
CreateFinish(call, outcome) ==
    LET e == CreateSandboxEffect(active_sandboxes, containers, call, now, outcome)
    IN /\ call \in create_calls
       /\ create_calls' = create_calls \ {call}
       /\ active_sandboxes' = e.registry
       /\ result' = Call("create_sandbox", call.recommendation_id, e.wait,
                         IF e.handle = NoHandle THEN "raised" ELSE "returned")
       /\ UNCHANGED <<wfVars, now, simVars, containers, sim_run, exVars, submit_calls,
                      sim_calls, fbVars, mlVars>>

\* the task of a create_sandbox call is cancelled while it waits for Neo4j:
\* the CancelledError passes `except Exception` and leaves the call, the
\* container it started keeps running
CreateCancelled(call) ==
    /\ call \in create_calls
    /\ create_calls' = create_calls \ {call}
    /\ result' = Call("create_sandbox", call.recommendation_id, "cancelled", "CancelledError")
    /\ UNCHANGED <<wfVars, now, simVars, sbVars, exVars, submit_calls, sim_calls, fbVars, mlVars>>

\* `sandbox_info = self.active_sandboxes.get(sandbox_id)` and the test
\* `if not sandbox_info` of apply_changes and copy_production_data (a
\* registry entry is a non-empty dict)
SandboxFound(registry, sandbox_id) == sandbox_id \in DOMAIN registry

\* SandboxManager.apply_changes: ValueError for an id that is not registered;
\* for a registered one the (mocked) changes are applied and True is returned
ApplyChanges(sandbox_id) ==
    /\ result' = Call("apply_changes", sandbox_id[1], sandbox_id[2],
                      IF SandboxFound(active_sandboxes, sandbox_id)
                      THEN "returned" ELSE "ValueError")
    /\ UNCHANGED <<wfVars, now, simVars, sbVars, exVars, ccVars, fbVars, mlVars>>

\* SandboxManager.copy_production_data: ValueError for an id that is not
\* registered; for a registered one the (mocked) copy is made
CopyProductionData(sandbox_id, tenant_id) ==
    /\ result' = Call("copy_production_data", sandbox_id[1], sandbox_id[2],
                      IF SandboxFound(active_sandboxes, sandbox_id)
                      THEN "returned" ELSE "ValueError")
    /\ UNCHANGED <<wfVars, now, simVars, sbVars, exVars, ccVars, fbVars, mlVars>>

(***************************************************************************)
(* Orchestrator (orchestrator.py): simulate_recommendation.                *)
(***************************************************************************)

\* the calls of simulate_recommendation's try block, in order
SimulationSteps ==
    <<"create_sandbox", "copy_production_data", "apply_changes", "load_query_log",
      "replay_queries", "detect_breaking_changes", "analyze_impact", "destroy_sandbox">>

\* the steps after create_sandbox that raise in this code: replay_queries when
\* the task is cancelled while it awaits a query (asyncio.CancelledError; the
\* log then has a query to await), and
\* analyze_impact when usage_metrics["affected_entities"] is no list of
\* strings (CompatibilityResult raises a ValidationError). copy_production_data
\* and apply_changes raise only for an unregistered sandbox, load_query_log and
\* detect_breaking_changes do not raise, destroy_sandbox catches its own errors
FaultSteps == {"replay_queries", "analyze_impact"}

Faults == FaultSteps \cup {"none"}

\* what the end of a run can meet: analyze_impact raises, or nothing does
AnalysisFaults == {"analyze_impact", "none"}

StepIndex(step) == CHOOSE i \in 1..Len(SimulationSteps) : SimulationSteps[i] = step

\* the calls a run makes: all of them, or those up to the one that raises
CallsMade(handle, fault) ==
    IF handle = NoHandle THEN <<"create_sandbox">>
    ELSE IF fault = "none" THEN SimulationSteps
    ELSE SubSeq(SimulationSteps, 1, StepIndex(fault))

SimRun(handle, calls) == [handle |-> handle, calls |-> calls]

NotYet == [pending |-> TRUE]

\* simulate_recommendation's except block: the imports from ..models name
\* app/models.py, which defines none of CompatibilityResult, PerformanceResult
\* and RiskLevel, so the handler raises ImportError before the report is built
FallbackOutcome == "ImportError"

\* simulate_recommendation's except block: the report its return statement
\* builds, which the failing import above it keeps it from reaching
FallbackReport(recommendation) ==
    [recommendation_id |-> recommendation.id,
     compatibility |-> [breaking_changes |-> 0, failing_queries |-> <<>>,
                        affected_entities |-> <<>>],
     performance |-> [queries_tested |-> 0, average_improvement |-> FromInt(0),
                      queries_improved |-> 0, queries_degraded |-> 0],
     migration_required |-> recommendation.migration_required,
     risk_score |-> FromInt(50),
     risk_level |-> "medium",
     recommendation_action |-> "needs_review"]

\* how a run ends: `except Exception` catches the errors of create_sandbox and
\* analyze_impact, and lets a cancellation through
RunOutcome(handle, fault) ==
    IF handle = NoHandle THEN FallbackOutcome
    ELSE IF fault = "none" THEN "returned"
    ELSE IF fault = "replay_queries" THEN "CancelledError"
    ELSE FallbackOutcome

\* a simulate_recommendation call in flight: its arguments, the query log
\* load_query_log gives it, the sandbox id its create_sandbox built and the
\* container it started, the await it is suspended in and the log entries its
\* replay has finished
SimCall(recommendation, tenant_id, query_log, sandbox_id, container_id, pc, done) ==
    [recommendation |-> recommendation, tenant_id |-> tenant_id, query_log |-> query_log,
     sandbox_id |-> sandbox_id, container_id |-> container_id, pc |-> pc, done |-> done]

\* the create_sandbox call of a simulation
CreateCallOf(call) ==
    SandboxInfo(call.sandbox_id, call.container_id, call.recommendation.id, call.tenant_id,
                NoTime)

\* simulate_recommendation from the return of replay_queries to its end:
\* detect_breaking_changes, analyze_impact (which raises under the fault),
\* destroy_sandbox and the return of the report
SimulateEndEffect(registry, running, call, fault, destroy_outcome) ==
    LET replay == ReplayQueries(call.query_log)
        d == DestroySandboxEffect(registry, running, call.sandbox_id, destroy_outcome)
    IN IF fault = "analyze_impact"
       THEN [registry |-> registry, running |-> running, report |-> NotYet]
       ELSE [registry |-> d.registry, running |-> d.running,
             report |-> AnalyzeImpact(call.recommendation, replay,
                                      DetectBreakingChanges(replay))]

\* AutonomousOntologyOrchestrator.simulate_recommendation, one step per
\* stretch between its suspension points.  The call is made: create_sandbox
\* builds the id and starts the container, and is suspended in its wait for
\* Neo4j; or containers.run raises and the except block ends the call
SimulateRecommendation(recommendation, tenant_id, query_log, run_outcome) ==
    LET sandbox_id == SandboxId(recommendation.id, now)
        container_id == ContainerId(UsedContainerIds(sandbox_id))
    IN /\ Cardinality(sim_calls) < MaxSimulations
       /\ IF DockerRun(containers, sandbox_id, run_outcome) = "run_error"
          THEN /\ sim_run' = SimRun(NoHandle, CallsMade(NoHandle, "none"))
               /\ report' = NotYet
               /\ result' = Call("simulate_recommendation", recommendation.id,
                                 "create_sandbox", RunOutcome(NoHandle, "none"))
               /\ UNCHANGED <<containers, sim_calls>>
          ELSE /\ containers' = StartContainer(containers, sandbox_id, container_id)
               /\ sim_calls' = sim_calls
                      \cup {SimCall(recommendation, tenant_id, query_log, sandbox_id,
                                    container_id, "create_sandbox", 0)}
               /\ result' = Call("simulate_recommendation", recommendation.id,
                                 "create_sandbox", "awaiting")
               /\ UNCHANGED <<sim_run, report>>
       /\ UNCHANGED <<wfVars, now, sim_input, replay_results, breaking_changes, replay_run,
                      active_sandboxes, exVars, submit_calls, create_calls, fbVars, mlVars>>

\* the wait for Neo4j is over.  It timed out (the container may run or be
\* gone; nothing stops it) and the except block ends the call;
\* or the sandbox is registered, copy_production_data, apply_changes and
\* load_query_log run (none of them suspends) and replay_queries is suspended
\* in the run of its first entry; or the log is empty and the call runs to
\* its end
SimulateCreated(call, wait_outcome, fault, destroy_outcome) ==
    LET c == CreateSandboxEffect(active_sandboxes, containers, CreateCallOf(call), now,
                                 wait_outcome)
        e == SimulateEndEffect(c.registry, containers, call, fault, destroy_outcome)
    IN /\ call \in sim_calls
       /\ call.pc = "create_sandbox"
       /\ IF c.handle = NoHandle
          THEN /\ sim_calls' = sim_calls \ {call}
               /\ UNCHANGED <<active_sandboxes, containers>>
               /\ sim_run' = SimRun(NoHandle, CallsMade(NoHandle, "none"))
               /\ report' = NotYet
               /\ result' = Call("simulate_recommendation", call.recommendation.id,
                                 "create_sandbox", RunOutcome(NoHandle, "none"))
          ELSE IF Len(call.query_log) > 0
          THEN /\ sim_calls' = (sim_calls \ {call}) \cup {[call EXCEPT !.pc = "replay_queries"]}
               /\ active_sandboxes' = c.registry
               /\ UNCHANGED containers
               /\ result' = Call("simulate_recommendation", call.recommendation.id,
                                 "replay_queries", "awaiting")
               /\ UNCHANGED <<sim_run, report>>
          ELSE /\ sim_calls' = sim_calls \ {call}
               /\ active_sandboxes' = e.registry
               /\ containers' = e.running
               /\ sim_run' = SimRun(call.sandbox_id, CallsMade(call.sandbox_id, fault))
               /\ report' = e.report
               /\ result' = Call("simulate_recommendation", call.recommendation.id, fault,
                                 RunOutcome(call.sandbox_id, fault))
       /\ UNCHANGED <<wfVars, now, sim_input, replay_results, breaking_changes, replay_run,
                      exVars, submit_calls, create_calls, fbVars, mlVars>>

\* the awaited run of a log entry is over: replay_queries is suspended in the
\* run of the next entry, or that was the last one and the call runs to its
\* end
SimulateReplayed(call, fault, destroy_outcome) ==
    LET e == SimulateEndEffect(active_sandboxes, containers, call, fault, destroy_outcome)
    IN /\ call \in sim_calls
       /\ call.pc = "replay_queries"
       /\ IF call.done + 1 < Len(call.query_log)
          THEN /\ sim_calls' = (sim_calls \ {call}) \cup {[call EXCEPT !.done = @ + 1]}
               /\ result' = Call("simulate_recommendation", call.recommendation.id,
                                 "replay_queries", "awaiting")
               /\ UNCHANGED <<active_sandboxes, containers, sim_run, report>>
          ELSE /\ sim_calls' = sim_calls \ {call}
               /\ active_sandboxes' = e.registry
               /\ containers' = e.running
               /\ sim_run' = SimRun(call.sandbox_id, CallsMade(call.sandbox_id, fault))
               /\ report' = e.report
               /\ result' = Call("simulate_recommendation", call.recommendation.id, fault,
                                 RunOutcome(call.sandbox_id, fault))
       /\ UNCHANGED <<wfVars, now, sim_input, replay_results, breaking_changes, replay_run,
                      exVars, submit_calls, create_calls, fbVars, mlVars>>

\* the task of the call is cancelled while it is suspended, in the wait for
\* Neo4j inside create_sandbox or in an awaited query of replay_queries: the
\* CancelledError passes `except Exception` (of create_sandbox and of
\* simulate_recommendation) and leaves the call
SimulateCancelled(call) ==
    LET handle == IF call.pc = "create_sandbox" THEN NoHandle ELSE call.sandbox_id
    IN /\ call \in sim_calls
       /\ sim_calls' = sim_calls \ {call}
       /\ sim_run' = SimRun(handle, CallsMade(handle, call.pc))
       /\ report' = NotYet
       /\ result' = Call("simulate_recommendation", call.recommendation.id, call.pc,
                         "CancelledError")
       /\ UNCHANGED <<wfVars, now, sim_input, replay_results, breaking_changes, replay_run,
                      active_sandboxes, containers, exVars, submit_calls, create_calls,
                      fbVars, mlVars>>

(***************************************************************************)
(* Orchestrator (orchestrator.py): execute_recommendation, with the YAML   *)
(* editor and the migration generator (execution/).                        *)
(***************************************************************************)

\* models.py RecommendationType
RecommendationTypes ==
    {"entity_consolidation", "new_relationship", "computed_field", "index",
     "validation", "deprecate_entity", "split_entity"}

\* YAMLEditor.apply_recommendation: the types it edits; it raises ValueError
\* for the others
YamlSupported(type) ==
    type \in {"new_relationship", "computed_field", "index", "validation",
              "entity_consolidation"}

\* MigrationGenerator.generate_migrations: the types it writes scripts for
\* (an empty list for the others)
MigrationsFor(type) ==
    IF type \in {"new_relationship", "computed_field", "index"} THEN "scripts" ELSE "empty"

\* models.py DeploymentMetrics: a health sample, its error rate in percent
\* (p99 latency and throughput have no threshold and are left out)
DeploymentMetrics(error_rate) == [error_rate |-> error_rate]

\* models.py Deployment.rollback_reason when it is None
NoReason == "none"

\* models.py Deployment
Deployment(id, status, metrics, rollback_reason) ==
    [recommendation_id |-> id, status |-> status, metrics |-> metrics,
     rollback_reason |-> rollback_reason]

\* DeploymentOrchestrator: the error-rate threshold of the rollback trigger,
\* in percent
ErrorRateThreshold == 5

\* the error rates a health sample reports, in percent: none, exactly the
\* threshold, above it
ErrorRates == {0, 5, 8}

\* what the sampling timer gets at one tick of its cadence: a health sample,
\* or nothing within the grace window
Observation(kind, error_rate) == [kind |-> kind, sample |-> DeploymentMetrics(error_rate)]

Observations ==
    {Observation("sample", e) : e \in ErrorRates} \cup {Observation("missing", 0)}

\* how the staged rollout goes up to cutover: it gets there; a step fails
\* (a migration script error); deploy raises
PreCutover == {"ok", "error", "raises"}

\* one deploy call: the rollout up to cutover and what the sampling timer
\* gets during the settle window, which is MaxSamples ticks long
Rollouts ==
    [pre_cutover : PreCutover,
     health : [1..MaxSamples -> Observations]]

\* DeploymentOrchestrator: a sample exceeding the error-rate threshold
Breaches(sample) == sample.error_rate > ErrorRateThreshold

\* DeploymentOrchestrator.deploy: the Deployment it starts with
StartDeployment(id) == Deployment(id, "pending", <<>>, NoReason)

Cutover_RollsBack(deployment, pre_cutover) ==
    IF pre_cutover = "ok"
    THEN [deployment EXCEPT !.status = "in_progress"]
    ELSE [deployment EXCEPT !.status = "rolled_back", !.rollback_reason = "rollout failed"]

\* DeploymentOrchestrator.deploy: the staged rollout up to cutover; a failure
\* before cutover goes directly to failed
Cutover(deployment, pre_cutover) ==
    IF pre_cutover = "ok"
    THEN [deployment EXCEPT !.status = "in_progress"]
    ELSE [deployment EXCEPT !.status = "failed"]

OnHealthSample_RecordOnly(deployment, sample) ==
    [deployment EXCEPT !.metrics = Append(deployment.metrics, sample)]

\* DeploymentOrchestrator: a health sample taken after cutover is recorded,
\* and one that exceeds the threshold triggers the rollback
OnHealthSample(deployment, sample) ==
    IF Breaches(sample)
    THEN [deployment EXCEPT !.metrics = Append(deployment.metrics, sample),
                            !.status = "rolled_back",
                            !.rollback_reason = "error rate above threshold"]
    ELSE [deployment EXCEPT !.metrics = Append(deployment.metrics, sample)]

\* DeploymentOrchestrator: no health sample within the grace window triggers
\* the rollback too
OnMissedSample(deployment) ==
    [deployment EXCEPT !.status = "rolled_back", !.rollback_reason = "no health sample"]

\* DeploymentOrchestrator: the settle window is over with no breach
OnSettled(deployment) == [deployment EXCEPT !.status = "completed"]

\* one tick of the sampling timer, for a deployment in progress
Observe(deployment, observation) ==
    IF observation.kind = "missing"
    THEN OnMissedSample(deployment)
    ELSE OnHealthSample(deployment, observation.sample)

RECURSIVE Monitor(_, _)
\* the sampling timer runs until the Deployment reaches a terminal status
Monitor(deployment, health) ==
    IF deployment.status # "in_progress" THEN deployment
    ELSE IF Len(deployment.metrics) = MaxSamples \/ health = <<>>
    THEN OnSettled(deployment)
    ELSE Monitor(Observe(deployment, Head(health)), Tail(health))

\* DeploymentOrchestrator.deploy: the Deployment it returns
Deploy(id, rollout) ==
    Monitor(Cutover(StartDeployment(id), rollout.pre_cutover), rollout.health)

Execution(yaml_changes, migrations, deploy_called, deployment) ==
    [yaml_changes |-> yaml_changes, migrations |-> migrations,
     deploy_called |-> deploy_called, deployment |-> deployment]

\* execute_recommendation's except block: its import from ..models names
\* app/models.py, which does not define DeploymentStatus, so the handler raises
\* ImportError before it builds the failed Deployment
ExecuteFallbackOutcome == "ImportError"

\* how an execute_recommendation call ends: it returns deploy's Deployment, or
\* apply_recommendation or deploy raised and the handler raises in turn
ExecuteOutcome(type, rollout) ==
    IF ~YamlSupported(type) \/ rollout.pre_cutover = "raises"
    THEN ExecuteFallbackOutcome
    ELSE "returned"

\* AutonomousOntologyOrchestrator.execute_recommendation: what one call
\* produces; the workflow engine is not consulted
ExecuteEffect(id, type, rollout) ==
    IF ~YamlSupported(type)
    THEN Execution(FALSE, "none", FALSE, NotYet)
    ELSE IF rollout.pre_cutover = "raises"
    THEN Execution(TRUE, MigrationsFor(type), TRUE, NotYet)
    ELSE Execution(TRUE, MigrationsFor(type), TRUE, Deploy(id, rollout))

\* AutonomousOntologyOrchestrator.execute_recommendation
ExecuteRecommendation(id, type, rollout) ==
    /\ executions' = DictPut(executions, id, ExecuteEffect(id, type, rollout))
    /\ result' = Call("execute_recommendation", id, type, ExecuteOutcome(type, rollout))
    /\ UNCHANGED <<wfVars, now, simVars, sbVars, deployments, ccVars, fbVars, mlVars>>

(***************************************************************************)
(* Feedback collector (monitoring/feedback_collector.py).  Improvements    *)
(* are percentages; error rates are in percent too (the collector's 0.05   *)
(* and 0.01 are 5 and 1).                                                  *)
(***************************************************************************)
FMax(x, y) == IF FLess(x, y) THEN y ELSE x

\* x / y for y > 0
FDiv(x, y) == Frac(x.n * y.d, x.d * y.n)

\* models.py DeploymentMetrics with its latency and throughput fields
DeploymentMetricsOf(error_rate, p99_latency, throughput) ==
    [error_rate |-> error_rate, p99_latency |-> p99_latency, throughput |-> throughput]

\* FeedbackCollector._calculate_actual_impact
CalculateActualImpact(deployment) ==
    IF deployment.metrics = <<>>
    THEN [performance_improvement |-> FromInt(0), error_rate_change |-> 0,
          user_satisfaction |-> 0]
    ELSE LET baseline_metrics == deployment.metrics[1]
             current_metrics == deployment.metrics[Len(deployment.metrics)]
         IN [performance_improvement |->
                 IF baseline_metrics.p99_latency > 0
                 THEN Frac((baseline_metrics.p99_latency - current_metrics.p99_latency) * 100,
                           baseline_metrics.p99_latency)
                 ELSE FromInt(0),
             error_rate_change |-> current_metrics.error_rate - baseline_metrics.error_rate,
             throughput_change |-> current_metrics.throughput - baseline_metrics.throughput,
             rollback_required |-> deployment.status = "rolled_back"]

\* FeedbackCollector._calculate_prediction_accuracy
CalculatePredictionAccuracy(predicted_perf, actual_perf) ==
    IF FLess(FromInt(0), predicted_perf) /\ FLess(FromInt(0), actual_perf)
    THEN FDiv(FMin(actual_perf, predicted_perf), FMax(actual_perf, predicted_perf))
    ELSE IF predicted_perf = FromInt(0) /\ FLess(FAbs(actual_perf), FromInt(5))
    THEN FromInt(1)
    ELSE IF \/ FLess(FromInt(0), predicted_perf) /\ FLess(actual_perf, FromInt(0))
            \/ FLess(predicted_perf, FromInt(0)) /\ FLess(FromInt(0), actual_perf)
    THEN FromInt(0)
    ELSE Frac(1, 2)

\* FeedbackCollector._identify_missed_issues: one dict per issue
IdentifyMissedIssues(deployment) ==
    (IF deployment.status = "rolled_back"
     THEN <<[issue |-> "deployment_failure",
             description |-> IF deployment.rollback_reason = NoReason
                             THEN "Unknown failure"
                             ELSE deployment.rollback_reason,
             severity |-> "high"]>>
     ELSE <<>>)
    \o [i \in 1..Cardinality({j \in 1..Len(deployment.metrics) :
                                 deployment.metrics[j].error_rate > 5})
           |-> [issue |-> "high_error_rate", description |-> "Error rate",
                severity |-> "medium"]]

\* FeedbackCollector._identify_unexpected_benefits: one dict per benefit
IdentifyUnexpectedBenefits(deployment) ==
    IF deployment.metrics = <<>> THEN <<>>
    ELSE LET latest == deployment.metrics[Len(deployment.metrics)]
         IN (IF latest.error_rate < 1
             THEN <<[benefit |-> "excellent_reliability", description |-> "Error rate below 1%"]>>
             ELSE <<>>)
            \o (IF latest.throughput > 1500
                THEN <<[benefit |-> "high_throughput", description |-> "Throughput"]>>
                ELSE <<>>)

\* FeedbackCollector._collect_user_satisfaction
CollectUserSatisfaction(deployment) ==
    CASE deployment.status = "completed" -> 8
      [] deployment.status = "rolled_back" -> 3
      [] OTHER -> 5

\* FeedbackCollector._determine_outcome
DetermineOutcome(deployment) ==
    CASE deployment.status = "completed" -> "success"
      [] deployment.status = "rolled_back" -> "rolled_back"
      [] OTHER -> "reverted"

\* models.py FeedbackData
FeedbackData(id, outcome, predicted_impact, actual_impact, accuracy, missed, benefits, satisfaction) ==
    [recommendation_id |-> id, outcome |-> outcome, predicted_impact |-> predicted_impact,
     actual_impact |-> actual_impact, prediction_accuracy |-> accuracy,
     missed_issues |-> missed, unexpected_benefits |-> benefits,
     user_satisfaction |-> satisfaction]

\* models.py FeedbackData, the validation of its fields: missed_issues and
\* unexpected_benefits are declared List[str], and the collector fills them
\* with dicts, which are not strings
FeedbackDataValid(missed, benefits) == missed = <<>> /\ benefits = <<>>

\* what a feedback-collector call was given and gave
Feedback(call, deployment, predicted, actual, accuracy, outcome, data) ==
    [call |-> call, deployment |-> deployment, predicted |-> predicted, actual |-> actual,
     accuracy |-> accuracy, outcome |-> outcome, data |-> data]

NoFeedback == Feedback("none", NotYet, FromInt(0), FromInt(0), FromInt(0), "none", NotYet)

\* FeedbackCollector.collect_deployment_feedback: the impacts, the accuracy,
\* the issues and the benefits are computed, then the FeedbackData is built,
\* which raises pydantic's ValidationError when it does not validate
CollectFeedbackEffect(deployment, recommendation_id, predicted_improvement) ==
    LET predicted_impact == [performance_improvement |-> FromInt(predicted_improvement),
                             risk_score |-> 0]
        actual_impact == CalculateActualImpact(deployment)
        accuracy == CalculatePredictionAccuracy(predicted_impact.performance_improvement,
                                                actual_impact.performance_improvement)
        missed_issues == IdentifyMissedIssues(deployment)
        unexpected_benefits == IdentifyUnexpectedBenefits(deployment)
    IN IF FeedbackDataValid(missed_issues, unexpected_benefits)
       THEN Feedback("collect_deployment_feedback", deployment, predicted_impact.performance_improvement,
                     actual_impact.performance_improvement, accuracy, "returned",
                     FeedbackData(recommendation_id, DetermineOutcome(deployment),
                                  predicted_impact, actual_impact, accuracy, missed_issues,
                                  unexpected_benefits, CollectUserSatisfaction(deployment)))
       ELSE Feedback("collect_deployment_feedback", deployment, predicted_impact.performance_improvement,
                     actual_impact.performance_improvement, accuracy, "ValidationError",
                     NotYet)

\* FeedbackCollector.collect_deployment_feedback
CollectDeploymentFeedback(deployment, recommendation_id, predicted_improvement) ==
    /\ feedback' = CollectFeedbackEffect(deployment, recommendation_id, predicted_improvement)
    /\ UNCHANGED <<wfVars, now, result, simVars, sbVars, exVars, ccVars, mlVars>>

\* FeedbackCollector._calculate_prediction_accuracy, called on its own
PredictionAccuracy(predicted_perf, actual_perf) ==
    /\ feedback' = Feedback("_calculate_prediction_accuracy", NotYet, FromInt(predicted_perf),
                            FromInt(actual_perf),
                            CalculatePredictionAccuracy(FromInt(predicted_perf),
                                                        FromInt(actual_perf)),
                            "returned", NotYet)
    /\ UNCHANGED <<wfVars, now, result, simVars, sbVars, exVars, ccVars, mlVars>>

(***************************************************************************)
(* The ML service (services/binah-ml): the train and predict routes and    *)
(* the tenant context.  A request carries the tenant_id of its token, as   *)
(* the authentication dependency decoded it, and the tenant_id of its      *)
(* body as the client wrote it.                                            *)
(***************************************************************************)
\* the tenant_id claim of the token
TokenTenants == {"aaaaaaaa", "bbbbbbbb"}

\* the tenant_id of the body, as written by the client: a UUID in lower
\* case, or in upper case
BodyTenants == {"aaaaaaaa", "AAAAAAAA", "bbbbbbbb"}

\* str(request.tenant_id): the body's tenant_id was parsed into a UUID, whose
\* str() is the lower-case form
UuidStr(raw) == IF raw = "AAAAAAAA" THEN "aaaaaaaa" ELSE raw

\* _tenant_id.get() when nothing was set
NoTenant == "None"

ValidateTenantIsolation_TrustBody(expected_tenant_id, actual_tenant_id) == TRUE

\* middleware/tenant.py validate_tenant_isolation: TRUE when it returns,
\* FALSE when it raises the 403
ValidateTenantIsolation(expected_tenant_id, actual_tenant_id) ==
    ~(actual_tenant_id # "" /\ actual_tenant_id # expected_tenant_id)

\* what a route did for a tenant: a training run or a prediction, with the
\* token of the request it was done for
MlWork(route, token_tenant, tenant_id) ==
    [route |-> route, token_tenant |-> token_tenant, tenant_id |-> tenant_id]

\* the response to a request, and the tenant context of the request when it
\* ended
MlResponse(route, token_tenant, body_tenant, status, tenant_context) ==
    [route |-> route, token_tenant |-> token_tenant, body_tenant |-> body_tenant,
     status |-> status, tenant_context |-> tenant_context]

\* a train request awaiting pipeline.train_model, with its tenant context
MlRequest(token_tenant, body_tenant, tenant_context) ==
    [token_tenant |-> token_tenant, body_tenant |-> body_tenant,
     tenant_context |-> tenant_context]

MlState(training, work, response) == [training |-> training, work |-> work, response |-> response]

MlStarted == MlState({}, {}, MlResponse("none", "none", "none", 0, NoTenant))

\* routers/ml.py predict: the validation, the context, the (placeholder)
\* prediction for request.tenant_id, and the finally block
Predict(token_tenant, body_tenant) ==
    /\ ml' = IF ValidateTenantIsolation(token_tenant, UuidStr(body_tenant))
             THEN [ml EXCEPT
                      !.work = @ \cup {MlWork("predict", token_tenant, UuidStr(body_tenant))},
                      !.response = MlResponse("predict", token_tenant, body_tenant, 200, NoTenant)]
             ELSE [ml EXCEPT
                      !.response = MlResponse("predict", token_tenant, body_tenant, 403, NoTenant)]
    /\ UNCHANGED <<wfVars, now, result, simVars, sbVars, exVars, ccVars, fbVars>>

\* routers/ml.py train_model up to `await pipeline.train_model(request)`: the
\* validation raises the 403, or get_training_pipeline raises (the 500), or
\* the context is set and the pipeline starts its run for request.tenant_id
TrainBegin(token_tenant, body_tenant, pipeline_ready) ==
    /\ Cardinality(ml.training) < MaxTraining
    /\ ml' = IF ~ValidateTenantIsolation(token_tenant, UuidStr(body_tenant))
             THEN [ml EXCEPT
                      !.response = MlResponse("train", token_tenant, body_tenant, 403, NoTenant)]
             ELSE IF ~pipeline_ready
             THEN [ml EXCEPT
                      !.response = MlResponse("train", token_tenant, body_tenant, 500, NoTenant)]
             ELSE [ml EXCEPT
                      !.training = @ \cup {MlRequest(token_tenant, body_tenant, token_tenant)},
                      !.work = @ \cup {MlWork("train", token_tenant, UuidStr(body_tenant))}]
    /\ UNCHANGED <<wfVars, now, result, simVars, sbVars, exVars, ccVars, fbVars>>

\* routers/ml.py train_model after the await: the pipeline returned its
\* TrainingResponse (completed or failed), the finally block clears the
\* context
TrainFinish(request) ==
    /\ request \in ml.training
    /\ ml' = [ml EXCEPT
                 !.training = @ \ {request},
                 !.response = MlResponse("train", request.token_tenant, request.body_tenant,
                                         200, NoTenant)]
    /\ UNCHANGED <<wfVars, now, result, simVars, sbVars, exVars, ccVars, fbVars>>

(***************************************************************************)
(* Specifications.                                                         *)
(***************************************************************************)
\* a replay_queries call: the number of log entries its loop has finished and
\* whether it is not started, in its loop, awaiting a query that never
\* completes, or returned
ReplayRun(done, state) == [done |-> done, state |-> state]

NoInput == [recommendation |-> Recommendation("none", FALSE, 0, <<>>), query_log |-> <<>>]

\* the state after the orchestrator is constructed
Constructed ==
    /\ active_workflows = << >>
    /\ now = 0
    /\ result = NoCall
    /\ replay_results = NotYet
    /\ breaking_changes = NotYet
    /\ report = NotYet
    /\ replay_run = ReplayRun(0, "idle")
    /\ active_sandboxes = << >>
    /\ containers = << >>
    /\ sim_run = SimRun(NoHandle, <<>>)
    /\ executions = << >>
    /\ deployments = << >>
    /\ submit_calls = NoCalls
    /\ create_calls = {}
    /\ sim_calls = {}
    /\ feedback = NoFeedback
    /\ ml = MlStarted

\* the analysis pipeline after replay_queries, one step per call
DetectStep ==
    /\ replay_results # NotYet
    /\ breaking_changes = NotYet
    /\ breaking_changes' = [list |-> DetectBreakingChanges(replay_results)]
    /\ result' = Call("detect_breaking_changes", sim_input.recommendation.id, "none", "returned")
    /\ UNCHANGED <<wfVars, now, sim_input, replay_results, report, replay_run, sbVars, exVars, ccVars, fbVars, mlVars>>

AnalyzeStep ==
    /\ breaking_changes # NotYet
    /\ report = NotYet
    /\ report' = AnalyzeImpact(sim_input.recommendation, replay_results, breaking_changes.list)
    /\ result' = Call("analyze_impact", sim_input.recommendation.id, "none", "returned")
    /\ UNCHANGED <<wfVars, now, sim_input, replay_results, breaking_changes, replay_run, sbVars, exVars, ccVars, fbVars, mlVars>>

\* AutonomousOntologyOrchestrator.submit_for_approval: the workflow started
\* from a recommendation and its impact report
SubmitForApproval(recommendation, impact_report) ==
    StartWorkflow(recommendation.id, impact_report.risk_level)

SubmitForApprovalStep ==
    /\ report # NotYet
    /\ SubmitForApproval(sim_input.recommendation, report)

\* the impact analysis as a function of its inputs
InitImpact ==
    /\ Constructed
    /\ sim_input \in [recommendation : Recommendations, query_log : QueryLogs]

\* replay_queries, one loop iteration per step.  The call is made:
ReplayBegin ==
    /\ replay_run.state = "idle"
    /\ replay_run' = ReplayRun(0, "looping")
    /\ UNCHANGED <<wfVars, now, result, sim_input, replay_results, breaking_changes,
                   report, sbVars, exVars, ccVars, fbVars, mlVars>>

\* the awaited run of the next entry completes, by returning or by raising,
\* and the loop records it
ReplayOne ==
    /\ replay_run.state = "looping"
    /\ replay_run.done < Len(sim_input.query_log)
    /\ replay_run' = ReplayRun(replay_run.done + 1, "looping")
    /\ UNCHANGED <<wfVars, now, result, sim_input, replay_results, breaking_changes,
                   report, sbVars, exVars, ccVars, fbVars, mlVars>>

\* the awaited run of the next entry never completes; _replay_single_query
\* awaits it with no timeout, so the loop stays at this entry
ReplayHang ==
    /\ replay_run.state = "looping"
    /\ replay_run.done < Len(sim_input.query_log)
    /\ replay_run' = ReplayRun(replay_run.done, "hung")
    /\ UNCHANGED <<wfVars, now, result, sim_input, replay_results, breaking_changes,
                   report, sbVars, exVars, ccVars, fbVars, mlVars>>

\* the loop is over: the summary is computed and the results are returned
ReplayReturn ==
    /\ replay_run.state = "looping"
    /\ replay_run.done = Len(sim_input.query_log)
    /\ replay_run' = ReplayRun(replay_run.done, "returned")
    /\ replay_results' = ReplayQueries(sim_input.query_log)
    /\ result' = Call("replay_queries", sim_input.recommendation.id, "none", "returned")
    /\ UNCHANGED <<wfVars, now, sim_input, breaking_changes, report, sbVars, exVars, ccVars, fbVars, mlVars>>

NextReplay == ReplayBegin \/ ReplayOne \/ ReplayHang \/ ReplayReturn

\* the event loop runs the replay whenever it can take a step
SpecReplay ==
    /\ InitImpact
    /\ [][NextReplay]_vars
    /\ WF_vars(ReplayBegin) /\ WF_vars(ReplayOne) /\ WF_vars(ReplayReturn)

\* the analysis pipeline: replay_queries by its loop, then one step per call
NextImpact ==
    \/ ReplayBegin
    \/ ReplayOne
    \/ ReplayHang
    \/ ReplayReturn
    \/ DetectStep
    \/ AnalyzeStep
    \/ SubmitForApprovalStep

SpecImpact == InitImpact /\ [][NextImpact]_vars

\* the workflow engine
Init ==
    /\ Constructed
    /\ sim_input = NoInput

Next ==
    \/ \E id \in Proposals, risk_level \in RiskLevels : StartWorkflow(id, risk_level)
    \/ \E id \in Proposals, by \in Submitters, s \in ApprovalStatuses :
           SubmitApproval(id, by[1], by[2], s)
    \/ Tick

Spec == Init /\ [][Next]_vars

\* the orchestrator under simulate_recommendation calls on one event loop, at
\* most MaxSimulations of them in flight, with destroy_sandbox and cleanup_all
\* calls and the clock in between
\* (InitImpact varies what the analysis reads of a recommendation)
SimRecommendations ==
    {Recommendation(id, m, 0, a) :
        id \in Proposals, m \in {FALSE}, a \in {<<>>}}

SimQueryLogs ==
    {q \in QueryLogs :
        /\ Len(q) <= 1
        /\ \A i \in 1..Len(q) :
              q[i].duration_ms = 100 /\ q[i].sandbox_ms = 25 /\ ~q[i].raises}

SandboxIds == {SandboxId(id, t) : id \in Proposals, t \in 0..MaxTime}

NextSim ==
    \/ \E r \in SimRecommendations, tenant \in Tenants, q \in SimQueryLogs, c \in RunOutcomes :
           SimulateRecommendation(r, tenant, q, c)
    \/ \E call \in sim_calls, w \in WaitOutcomes, f \in AnalysisFaults, d \in DestroyOutcomes :
           SimulateCreated(call, w, f, d)
    \/ \E call \in sim_calls, f \in AnalysisFaults, d \in DestroyOutcomes :
           SimulateReplayed(call, f, d)
    \/ \E call \in sim_calls : SimulateCancelled(call)
    \/ \E sandbox_id \in DOMAIN containers : ContainerExits(sandbox_id, containers[sandbox_id])
    \/ \E sandbox_id \in SandboxIds, d \in DestroyOutcomes : DestroySandbox(sandbox_id, d)
    \/ \E outcome_of \in [DOMAIN active_sandboxes -> DestroyOutcomes] : CleanupAll(outcome_of)
    \/ Tick

SpecSim == Init /\ [][NextSim]_vars

\* the workflow engine with the execution engine
NextExec ==
    \/ \E id \in Proposals, risk_level \in RiskLevels : StartWorkflow(id, risk_level)
    \/ \E id \in Proposals, s \in ApprovalStatuses :
           SubmitApproval(id, "alice", "reviewer", s)
    \/ \E id \in Proposals, type \in RecommendationTypes, rollout \in Rollouts :
           ExecuteRecommendation(id, type, rollout)

SpecExec == Init /\ [][NextExec]_vars

\* the deployment orchestrator, one step per stage of a rollout and per tick
\* of its sampling timer, for the deployments of two proposals
DeployedProposals == {"r1", "r2"}

DeployStart(id) ==
    /\ id \notin DOMAIN deployments
    /\ deployments' = DictPut(deployments, id, StartDeployment(id))
    /\ result' = Call("deploy", id, "start", "pending")
    /\ UNCHANGED <<wfVars, now, simVars, sbVars, executions, ccVars, fbVars, mlVars>>

DeployCutover(id, pre_cutover) ==
    /\ id \in DOMAIN deployments
    /\ deployments[id].status = "pending"
    /\ deployments' = DictPut(deployments, id, Cutover(deployments[id], pre_cutover))
    /\ result' = Call("deploy", id, "cutover", deployments'[id].status)
    /\ UNCHANGED <<wfVars, now, simVars, sbVars, executions, ccVars, fbVars, mlVars>>

HealthTick(id, observation) ==
    /\ id \in DOMAIN deployments
    /\ deployments[id].status = "in_progress"
    /\ Len(deployments[id].metrics) < MaxSamples
    /\ deployments' = DictPut(deployments, id, Observe(deployments[id], observation))
    /\ result' = Call("deploy", id, observation.kind, deployments'[id].status)
    /\ UNCHANGED <<wfVars, now, simVars, sbVars, executions, ccVars, fbVars, mlVars>>

Settle(id) ==
    /\ id \in DOMAIN deployments
    /\ deployments[id].status = "in_progress"
    /\ Len(deployments[id].metrics) = MaxSamples
    /\ deployments' = DictPut(deployments, id, OnSettled(deployments[id]))
    /\ result' = Call("deploy", id, "settle", deployments'[id].status)
    /\ UNCHANGED <<wfVars, now, simVars, sbVars, executions, ccVars, fbVars, mlVars>>

NextDeploy ==
    \/ \E id \in DeployedProposals : DeployStart(id)
    \/ \E id \in DeployedProposals, pre_cutover \in PreCutover \ {"raises"} :
           DeployCutover(id, pre_cutover)
    \/ \E id \in DeployedProposals, observation \in Observations : HealthTick(id, observation)
    \/ \E id \in DeployedProposals : Settle(id)

SpecDeploy == Init /\ [][NextDeploy]_vars

\* the environment of a registered sandbox runs
SandboxLive(registry, running, sandbox_id) ==
    /\ sandbox_id \in DOMAIN registry
    /\ ContainerFound(running, sandbox_id, registry[sandbox_id].container_id)

\* the sandbox manager called by a component that holds sandbox ids: it
\* creates and destroys sandboxes and calls apply_changes and
\* copy_production_data with ids it holds, registered or not.  The containers
\* that stop by themselves are here those of no registered sandbox, so that
\* a registered sandbox whose environment does not run is one that a
\* destroy_sandbox call stopped
NextUse ==
    \/ \E id \in Proposals, tenant \in Tenants, c \in RunOutcomes : CreateBegin(id, tenant, c)
    \/ \E call \in create_calls, w \in WaitOutcomes : CreateFinish(call, w)
    \/ \E call \in create_calls : CreateCancelled(call)
    \/ \E sandbox_id \in DOMAIN containers :
           /\ ~SandboxLive(active_sandboxes, containers, sandbox_id)
           /\ ContainerExits(sandbox_id, containers[sandbox_id])
    \/ \E sandbox_id \in SandboxIds, d \in DestroyOutcomes : DestroySandbox(sandbox_id, d)
    \/ \E sandbox_id \in SandboxIds : ApplyChanges(sandbox_id)
    \/ \E sandbox_id \in SandboxIds, tenant \in Tenants : CopyProductionData(sandbox_id, tenant)
    \/ Tick

SpecUse == Init /\ [][NextUse]_vars

\* the sandbox manager under create_sandbox, destroy_sandbox and cleanup_all
\* calls on one event loop: a create can be suspended between the start of its
\* container and its registration; destroy_sandbox and cleanup_all have no
\* suspension point (cleanup_all awaits only destroy_sandbox, which awaits
\* nothing) and run in one piece
NextRegistry ==
    \/ \E id \in Proposals, tenant \in Tenants, c \in RunOutcomes : CreateBegin(id, tenant, c)
    \/ \E call \in create_calls, w \in WaitOutcomes : CreateFinish(call, w)
    \/ \E call \in create_calls : CreateCancelled(call)
    \/ \E sandbox_id \in DOMAIN containers : ContainerExits(sandbox_id, containers[sandbox_id])
    \/ \E sandbox_id \in SandboxIds, d \in DestroyOutcomes : DestroySandbox(sandbox_id, d)
    \/ \E outcome_of \in [DOMAIN active_sandboxes -> DestroyOutcomes] : CleanupAll(outcome_of)
    \/ Tick

SpecRegistry == Init /\ [][NextRegistry]_vars

\* AutonomousOntologyOrchestrator.close: cleanup_all on shutdown
Close(outcome_of) == CleanupAll(outcome_of)

\* the orchestrator left to itself: simulations run and create their
\* sandboxes, nobody calls destroy_sandbox on a registered handle, and the
\* orchestrator may be closed.  Time passes; the sandbox manager starts no
\* task of its own and the orchestrator none for it, so once no simulation
\* is suspended nothing is scheduled
NextSweep ==
    \/ \E r \in SimRecommendations, tenant \in Tenants, q \in SimQueryLogs, c \in RunOutcomes :
           SimulateRecommendation(r, tenant, q, c)
    \/ \E call \in sim_calls, w \in WaitOutcomes, f \in AnalysisFaults, d \in DestroyOutcomes :
           SimulateCreated(call, w, f, d)
    \/ \E call \in sim_calls, f \in AnalysisFaults, d \in DestroyOutcomes :
           SimulateReplayed(call, f, d)
    \/ \E call \in sim_calls : SimulateCancelled(call)
    \/ \E sandbox_id \in DOMAIN containers : ContainerExits(sandbox_id, containers[sandbox_id])
    \/ \E outcome_of \in [DOMAIN active_sandboxes -> DestroyOutcomes] : Close(outcome_of)
    \/ Tick

SpecSweep == Init /\ [][NextSweep]_vars /\ WF_vars(Tick)

\* the workflow engine under submit_approval calls issued two at a time for
\* the same proposal, run by the event loop in either order
ConcurrentSubmitters == {by \in Submitters : by[2] = "reviewer"}

ConcurrentCalls ==
    {<<by[1], by[2], status>> : by \in ConcurrentSubmitters, status \in {"approved", "rejected"}}

NextSubmit ==
    \/ \E id \in Proposals, risk_level \in {"low", "medium"} :
           /\ \A i \in 1..Len(submit_calls.calls) : submit_calls.calls[i].pc = "done"
           /\ StartWorkflow(id, risk_level)
    \/ \E id \in Proposals, first \in ConcurrentCalls, second \in ConcurrentCalls :
           SubmitConcurrently(id, first, second)
    \/ \E i \in 1..Len(submit_calls.calls) : SubmitResume(i)
    \/ Tick

SpecSubmit == Init /\ [][NextSubmit]_vars

\* the feedback collector, given deployments that ended and the improvement
\* their recommendation predicted, in percent
Improvements == {-10, -3, -2, 0, 2, 4, 5, 10}

FeedbackSamples ==
    {DeploymentMetricsOf(e, l, t) : e \in {0, 3, 8}, l \in {0, 80, 100}, t \in {1000, 2000}}

FeedbackMetrics ==
    {<<>>} \cup {<<a>> : a \in FeedbackSamples}
           \cup {<<a, b>> : a \in FeedbackSamples, b \in FeedbackSamples}

FeedbackDeployments ==
    {Deployment("r1", "completed", m, NoReason) : m \in FeedbackMetrics}
    \cup {Deployment("r1", "rolled_back", m, reason) :
             m \in FeedbackMetrics, reason \in {NoReason, "error rate above threshold"}}
    \cup {Deployment("r1", "failed", <<>>, NoReason)}

NextFeedback ==
    \/ \E deployment \in FeedbackDeployments, id \in {"r1", "r2"}, predicted \in {10} :
           CollectDeploymentFeedback(deployment, id, predicted)
    \/ \E predicted \in Improvements, actual \in Improvements :
           PredictionAccuracy(predicted, actual)

SpecFeedback == Init /\ [][NextFeedback]_vars

\* the ML service under train and predict requests of two tenants
NextMl ==
    \/ \E token_tenant \in TokenTenants, body_tenant \in BodyTenants :
           Predict(token_tenant, body_tenant)
    \/ \E token_tenant \in TokenTenants, body_tenant \in BodyTenants, ready \in BOOLEAN :
           TrainBegin(token_tenant, body_tenant, ready)
    \/ \E request \in ml.training : TrainFinish(request)

SpecMl == Init /\ [][NextMl]_vars

\* the workflow engine with a notification service whose deliveries may fail
NextNotify ==
    \/ \E id \in Proposals, risk_level \in RiskLevels, delivery \in Deliveries :
           StartWorkflowNotified(id, risk_level, delivery)
    \/ \E id \in Proposals, s \in ApprovalStatuses :
           SubmitApproval(id, "alice", "reviewer", s)
    \/ Tick

SpecNotify == Init /\ [][NextNotify]_vars

\* the workflow engine called with ids of proposals that have a workflow and
\* of proposals that never had one
UnknownProposals == {"r2"}

NextUnknown ==
    \/ \E id \in Proposals, risk_level \in RiskLevels : StartWorkflow(id, risk_level)
    \/ \E id \in Proposals \cup UnknownProposals, by \in Submitters, s \in ApprovalStatuses :
           SubmitApproval(id, by[1], by[2], s)

SpecUnknown == Init /\ [][NextUnknown]_vars

\* the pipelines of two proposals side by side: workflows are started and
\* decided and simulations run for either of them against the one workflow
\* engine and the one sandbox manager of the orchestrator, one simulation of
\* a proposal at a time (SpecSim has several of one proposal in flight), with
\* every way a simulation can fail.  The clock stands still: a sandbox id
\* holds its proposal, so the ids of one second are the closest that the
\* sandboxes of two proposals come to each other
IsoProposals == Proposals \cup UnknownProposals

IsoRecommendations == {Recommendation(id, FALSE, 0, <<>>) : id \in IsoProposals}

IsoQueryLogs == {q \in SimQueryLogs : Len(q) = 1}

NextIso ==
    \/ \E id \in IsoProposals, risk_level \in {"safe", "medium"} : StartWorkflow(id, risk_level)
    \/ \E id \in IsoProposals, s \in ApprovalStatuses :
           /\ id \in DOMAIN active_workflows
                => Len(active_workflows[id].approvals) < MaxIsoApprovals
           /\ SubmitApproval(id, "alice", "reviewer", s)
    \/ \E r \in IsoRecommendations, tenant \in Tenants, q \in IsoQueryLogs, c \in RunOutcomes :
           /\ \A call \in sim_calls : call.recommendation.id # r.id
           /\ SimulateRecommendation(r, tenant, q, c)
    \/ \E call \in sim_calls, w \in WaitOutcomes, f \in AnalysisFaults, d \in DestroyOutcomes :
           SimulateCreated(call, w, f, d)
    \/ \E call \in sim_calls, f \in AnalysisFaults, d \in DestroyOutcomes :
           SimulateReplayed(call, f, d)
    \/ \E call \in sim_calls : SimulateCancelled(call)
    \/ \E sandbox_id \in DOMAIN containers : ContainerExits(sandbox_id, containers[sandbox_id])

SpecIso == Init /\ [][NextIso]_vars

(***************************************************************************)
(* Properties.                                                             *)
(***************************************************************************)
Workflows == DOMAIN active_workflows

ApprovedCount(id) == CountStatus(active_workflows[id].approvals, "approved")
RejectedCount(id) == CountStatus(active_workflows[id].approvals, "rejected")

\* the approver ids that have an approve decision recorded
ApprovingIds(id) ==
    {active_workflows[id].approvals[i].approver_id :
        i \in {j \in 1..Len(active_workflows[id].approvals) :
                  active_workflows[id].approvals[j].status = "approved"}}

\* the roles that have an approve decision recorded
ApprovingRoles(id) ==
    {active_workflows[id].approvals[i].approver_role :
        i \in {j \in 1..Len(active_workflows[id].approvals) :
                  active_workflows[id].approvals[j].status = "approved"}}

\* how often a run called `step`
TimesCalled(calls, step) == Cardinality({i \in 1..Len(calls) : calls[i] = step})

\* C1: no sandbox leak. When a run of simulate_recommendation has ended and
\* its create_sandbox returned a handle, the run called destroy_sandbox on
\* that handle exactly once and the active-sandbox registry no longer holds
\* the handle, on every exit path.
C1_NoSandboxLeak ==
    (/\ result.op = "simulate_recommendation"
     /\ result.outcome # "awaiting"
     /\ sim_run.handle # NoHandle)
        => /\ TimesCalled(sim_run.calls, "destroy_sandbox") = 1
           /\ sim_run.handle \notin DOMAIN active_sandboxes

\* C2: approval gate on execution. An execute call for a proposal whose
\* workflow is missing or not in phase approved fails with NotApproved and
\* produces no YAML change, no migration and no deployment.
C2_ApprovalGate ==
    result.op = "execute_recommendation"
        => \/ /\ result.id \in Workflows
              /\ active_workflows[result.id].current_state = "approved"
           \/ /\ result.outcome = "NotApproved"
              /\ result.id \in DOMAIN executions =>
                    /\ ~executions[result.id].yaml_changes
                    /\ executions[result.id].migrations = "none"
                    /\ ~executions[result.id].deploy_called

\* C3: verdict priority law. Whenever the replay that an impact report was
\* computed from has at least one failed operation, the report's verdict is
\* reject, whatever the score, the mean change, the migration flag and the
\* affected entities are.
C3_FailureRejects ==
    (report # NotYet /\ replay_results.failed > 0)
        => report.recommendation_action = "reject"

\* C3 witness: a report computed from a replay with a failed operation and an
\* operation that got faster, for a proposal without migration.
C3_Witness ==
    /\ report # NotYet
    /\ replay_results.failed = 1
    /\ replay_results.summary.queries_improved = 1
    /\ ~report.migration_required
    /\ report.recommendation_action = "reject"

\* C4: reject is immediate and absorbing under submit_approval. A workflow
\* with a reject decision on record is in phase rejected: it is there from the
\* call that records the reject, and no later submission moves it to approved.
C4_RejectAbsorbs ==
    \A id \in Workflows :
        RejectedCount(id) > 0 => active_workflows[id].current_state = "rejected"

\* C4 witness: a reject followed by as many approve decisions as the workflow
\* requires.
C4_Witness ==
    \E id \in Workflows :
        LET w == active_workflows[id]
        IN /\ w.required_approvals >= 1
           /\ Len(w.approvals) >= 2
           /\ w.approvals[1].status = "rejected"
           /\ ApprovedCount(id) >= w.required_approvals
           /\ w.current_state = "rejected"

\* C5: idempotence by approver identity. A workflow that requires n >= 2
\* approvals is in phase approved only with approve decisions of at least n
\* distinct approvers: the same approver's repeated approve does not count
\* again.
C5_DistinctApprovers ==
    \A id \in Workflows :
        (active_workflows[id].required_approvals >= 2
            /\ active_workflows[id].current_state = "approved")
        => Cardinality(ApprovingIds(id)) >= active_workflows[id].required_approvals

\* C6: approval threshold. With required_approvals = n >= 1 and no reject on
\* record, the phase is review while fewer than n approve decisions are
\* recorded and is approved, with scheduled_execution set, once n are; and no
\* workflow is in approved with fewer than required_approvals approve
\* decisions recorded.
C6_Threshold ==
    \A id \in Workflows :
        LET w == active_workflows[id]
        IN /\ (w.required_approvals >= 1 /\ RejectedCount(id) = 0) =>
                IF ApprovedCount(id) < w.required_approvals
                THEN w.current_state = "review"
                ELSE w.current_state = "approved" /\ w.scheduled_execution # NoTime
           /\ w.current_state = "approved" => ApprovedCount(id) >= w.required_approvals

\* C6 witness: the submission that brings the approve count of a workflow
\* requiring two or more approvals to its threshold, after a submission that
\* did not count.
C6_Witness ==
    \E id \in Workflows :
        LET w == active_workflows[id]
        IN /\ w.required_approvals >= 2
           /\ ApprovedCount(id) = w.required_approvals
           /\ Len(w.approvals) > w.required_approvals
           /\ result = Call("submit_approval", id, "approved", "returned")
           /\ w.current_state = "approved"
           /\ w.scheduled_execution = now + ScheduleDelayHours

\* C7: role requirement. A high-tier workflow (three required approvals) in
\* phase approved has an approve decision by an architect; a critical-tier
\* workflow (four) has approve decisions by an architect, a domain expert and
\* an executive.
C7_RoleRequirement ==
    \A id \in Workflows :
        LET w == active_workflows[id]
        IN /\ (w.required_approvals = 3 /\ w.current_state = "approved")
                => "architect" \in ApprovingRoles(id)
           /\ (w.required_approvals = 4 /\ w.current_state = "approved")
                => {"architect", "domain-expert", "executive"} \subseteq ApprovingRoles(id)

\* the edges of the phase state machine, and the move to failed
PhaseEdges ==
    {<<"review", "approved">>, <<"review", "rejected">>, <<"approved", "scheduled">>,
     <<"scheduled", "executing">>, <<"executing", "monitoring">>,
     <<"monitoring", "completed">>, <<"monitoring", "failed">>}

PhaseMoveAllowed(from, to) ==
    from = to \/ <<from, to>> \in PhaseEdges \/ to = "failed"

\* C8: monotonic phases. Across every start_workflow and submit_approval call
\* the phase of a proposal's workflow stays the same or follows an edge of
\* the state machine (or moves to failed); it never regresses.
C8_MonotonicPhases ==
    [][\A id \in Workflows \cap DOMAIN active_workflows' :
            PhaseMoveAllowed(active_workflows[id].current_state,
                             active_workflows'[id].current_state)]_vars

\* C9: safe-tier auto-approval. Right after start_workflow, a safe-tier
\* workflow is in phase approved with required_approvals = 0 and exactly one
\* approval record, authored by the system; a workflow of any other tier is in
\* phase review with no approval record.
C9_AutoApproval ==
    result.op = "start_workflow" =>
        LET w == active_workflows[result.id]
        IN IF result.arg = "safe"
           THEN /\ w.current_state = "approved"
                /\ w.required_approvals = 0
                /\ Len(w.approvals) = 1
                /\ w.approvals[1].approver_id = "system"
                /\ w.approvals[1].status = "approved"
           ELSE /\ w.current_state = "review"
                /\ w.approvals = <<>>

\* C9 witness: a safe-tier workflow just started over an earlier workflow of
\* the same proposal that was under review.
C9_Witness ==
    /\ result = Call("start_workflow", "r1", "safe", "returned")
    /\ active_workflows["r1"].current_state = "approved"
    /\ now > 0

\* the required-approval count of each risk tier
TierApprovals(risk_level) ==
    CASE risk_level = "safe" -> 0
      [] risk_level = "low" -> 1
      [] risk_level = "medium" -> 2
      [] risk_level = "high" -> 3
      [] risk_level = "critical" -> 4

\* C10: the required-approval count is the tier's (safe 0, low 1, medium 2,
\* high 3, critical 4) when start_workflow returns, and no submit_approval
\* call changes it.
C10_RequiredByTier ==
    [][/\ result'.op = "start_workflow" =>
            active_workflows'[result'.id].required_approvals = TierApprovals(result'.arg)
       /\ result'.op = "submit_approval" =>
            \A id \in Workflows \cap DOMAIN active_workflows' :
                active_workflows'[id].required_approvals
                    = active_workflows[id].required_approvals]_vars

\* C10 witness: a critical-tier workflow, four approvals required, after a
\* submission.
C10_Witness ==
    \E id \in Workflows :
        /\ active_workflows[id].required_approvals = 4
        /\ Len(active_workflows[id].approvals) >= 2
        /\ result.op = "submit_approval"

\* C11: unknown workflow. A submit_approval call for a proposal id that has no
\* workflow is rejected with an error (the code's ValueError "Workflow not
\* found") and leaves the workflow map and every existing WorkflowState as they
\* were: no workflow is created and no approval record is added anywhere.
C11_UnknownWorkflow ==
    [][(result'.op = "submit_approval" /\ result'.id \notin Workflows)
          => /\ result'.outcome = "ValueError"
             /\ active_workflows' = active_workflows]_vars

\* C11 witness: the call was rejected for a proposal without a workflow while
\* another proposal's workflow holds approval records.
C11_Witness ==
    /\ result.op = "submit_approval"
    /\ result.id \in UnknownProposals
    /\ result.outcome = "ValueError"
    /\ result.id \notin Workflows
    /\ \E id \in Workflows : Len(active_workflows[id].approvals) >= 2

\* C12: conservative fallback. A simulation that hits an unrecoverable error
\* (the sandbox cannot be created, or a pipeline step raises) returns an
\* ImpactReport with verdict needs-review, risk score 50 and tier medium,
\* never verdict approve or tier safe.
C12_ConservativeFallback ==
    (/\ result.op = "simulate_recommendation"
     /\ result.outcome \notin {"awaiting", "CancelledError"}
     /\ result.arg \in {"create_sandbox", "analyze_impact"})
    => /\ result.outcome = "returned"
       /\ report.recommendation_action = "needs_review"
       /\ report.risk_score = FromInt(50)
       /\ report.risk_level = "medium"

\* the inputs of the analysis whose report is in `report`
Analyzed == report # NotYet

\* C13: for every ImpactReport that analyze_impact produces, the risk score
\* lies in [0, 100], whatever the numbers of critical and other breaking
\* changes, declared notes, degraded operations and the mean change are.
C13_ScoreInRange ==
    Analyzed => /\ ~FLess(report.risk_score, FromInt(0))
                /\ ~FLess(FromInt(100), report.risk_score)

\* C13 witness: a report whose contributions add up to more than 100 (two
\* critical breaking changes, a migration, six declared notes, four entities)
\* and whose score is 100.
C13_Witness ==
    /\ Analyzed
    /\ replay_results.failed = 2
    /\ sim_input.recommendation.migration_required
    /\ sim_input.recommendation.declared_breaking = 6
    /\ Len(sim_input.recommendation.affected_entities) = 4
    /\ report.risk_score = FromInt(100)

\* the risk tier of a score: the thresholds 20, 40, 60 and 80
TierOfScore(score) ==
    CASE FLess(score, FromInt(20)) -> "safe"
      [] ~FLess(score, FromInt(20)) /\ FLess(score, FromInt(40)) -> "low"
      [] ~FLess(score, FromInt(40)) /\ FLess(score, FromInt(60)) -> "medium"
      [] ~FLess(score, FromInt(60)) /\ FLess(score, FromInt(80)) -> "high"
      [] ~FLess(score, FromInt(80)) -> "critical"

\* C14: in every ImpactReport of the pipeline, the one analyze_impact returns
\* and the one the simulation-failure handler builds, the risk tier is the
\* fixed function of the risk score: below 20 safe, below 40 low, below 60
\* medium, below 80 high, otherwise critical.
C14_TierOfScore ==
    /\ Analyzed => report.risk_level = TierOfScore(report.risk_score)
    /\ FallbackReport(sim_input.recommendation).risk_level
          = TierOfScore(FallbackReport(sim_input.recommendation).risk_score)
    /\ DetermineRiskLevel(FromInt(19)) = "safe" /\ DetermineRiskLevel(FromInt(20)) = "low"
    /\ DetermineRiskLevel(FromInt(39)) = "low" /\ DetermineRiskLevel(FromInt(40)) = "medium"
    /\ DetermineRiskLevel(FromInt(59)) = "medium" /\ DetermineRiskLevel(FromInt(60)) = "high"
    /\ DetermineRiskLevel(FromInt(79)) = "high" /\ DetermineRiskLevel(FromInt(80)) = "critical"

\* C14 witness: a report whose score is exactly on a boundary, 20, and whose
\* tier is low.
C14_Witness ==
    /\ Analyzed
    /\ report.risk_score = FromInt(20)
    /\ report.risk_level = "low"
    /\ replay_results.total_queries = 0

\* the sum of the risk contributions of an analysis, from its inputs
RiskSum(recommendation, replay, bcs) ==
    LET critical == Len(SelectSeq(bcs, IsCritical))
        mean == replay.summary.average_change_percent
        a == FromInt(25 * critical + 10 * (Len(bcs) - critical))
        b == IF FLess(mean, FromInt(0)) THEN FDivInt(FAbs(mean), 10) ELSE FromInt(0)
        c == IF replay.total_queries > 0
             THEN Frac(replay.summary.queries_degraded * 20, replay.total_queries)
             ELSE FromInt(0)
        d == FromInt((IF recommendation.migration_required THEN 15 ELSE 0)
                     + 5 * recommendation.declared_breaking
                     + (IF Len(recommendation.affected_entities) > 3 THEN 10 ELSE 0))
    IN FAdd(FAdd(a, b), FAdd(c, d))

\* C15: the risk score of a report is min(100, 25 x critical breaking changes
\* + 10 x other breaking changes + |mean change| / 10 when the mean change is
\* negative + degraded / total x 20 + 15 for a required migration + 5 x
\* declared notes + 10 for more than three affected entities), nothing else.
C15_ScoreFormula ==
    Analyzed =>
        report.risk_score
            = FMin(RiskSum(sim_input.recommendation, replay_results, breaking_changes.list),
                   FromInt(100))

\* C15 witness: a report with a negative mean, a degraded operation, a
\* migration, a declared note and four entities, below the cap.
C15_Witness ==
    /\ Analyzed
    /\ FLess(report.performance.average_improvement, FromInt(0))
    /\ report.performance.queries_degraded = 1
    /\ sim_input.recommendation.migration_required
    /\ sim_input.recommendation.declared_breaking = 1
    /\ Len(sim_input.recommendation.affected_entities) = 4
    /\ FLess(report.risk_score, FromInt(100))

\* C16: verdict policy below the reject rule for failures. For a report with
\* no failing operation: a mean change worse than -50% gives reject; otherwise
\* the verdict is approve exactly when the risk score is below 20 and the mean
\* change is >= 0 (0 included), and needs-review in every other case.
C16_VerdictPolicy ==
    (Analyzed /\ report.compatibility.failing_queries = <<>>) =>
        LET mean == report.performance.average_improvement
        IN report.recommendation_action =
              IF FLess(mean, FromInt(-50)) THEN "reject"
              ELSE IF FLess(report.risk_score, FromInt(20)) /\ ~FLess(mean, FromInt(0))
              THEN "approve"
              ELSE "needs_review"

\* C17: end-to-end scenario. A proposal with no breaking change, a mean replay
\* change of -5%, no migration and two affected entities (no declared note, no
\* degraded operation) gets risk score 0, tier safe and verdict approve, and
\* the workflow started from that report is auto-approved.
C17_Scenario ==
    (/\ Analyzed
     /\ report.compatibility.breaking_changes = 0
     /\ report.performance.average_improvement = FromInt(-5)
     /\ report.performance.queries_degraded = 0
     /\ ~sim_input.recommendation.migration_required
     /\ sim_input.recommendation.declared_breaking = 0
     /\ Len(sim_input.recommendation.affected_entities) = 2)
    => /\ report.risk_score = FromInt(0)
       /\ report.risk_level = "safe"
       /\ report.recommendation_action = "approve"
       /\ result.op = "start_workflow" =>
             active_workflows[result.id].current_state = "approved"

\* the query ids of a sequence of records, in order
QueryIds(records) == [i \in 1..Len(records) |-> records[i].query_id]

Raised(query_entry) == query_entry.raises
Ran(query_entry) == ~query_entry.raises

Replayed == replay_results # NotYet

\* C18: replay continues past individual failures. The result of
\* replay_queries over a log of n operations covers all n: successful +
\* failed = n, with one performance record per operation that ran and one
\* error record per operation that failed, each in the order of the log; a
\* failure drops no later operation.
C18_ReplayCoversLog ==
    Replayed =>
        /\ replay_results.total_queries = Len(sim_input.query_log)
        /\ replay_results.successful + replay_results.failed = Len(sim_input.query_log)
        /\ Len(replay_results.performance_changes) = replay_results.successful
        /\ Len(replay_results.errors) = replay_results.failed
        /\ QueryIds(replay_results.performance_changes)
              = QueryIds(SelectSeq(sim_input.query_log, Ran))
        /\ QueryIds(replay_results.errors)
              = QueryIds(SelectSeq(sim_input.query_log, Raised))

\* C18 witness: a log whose first operation fails and whose second runs; the
\* result holds the error of the first and the performance record of the
\* second.
C18_Witness ==
    /\ Replayed
    /\ Len(sim_input.query_log) = 2
    /\ sim_input.query_log[1].raises
    /\ replay_results.failed = 1
    /\ replay_results.successful = 1
    /\ replay_results.performance_changes[1].query_id = sim_input.query_log[2].query_id

Detected == breaking_changes # NotYet

\* the severity and the operation of each breaking change, in order
Severities(bcs) == [i \in 1..Len(bcs) |-> <<bcs[i].severity, bcs[i].query_id>>]

\* an operation that ran and took more than double its baseline duration
MoreThanDouble(query_entry) ==
    ~query_entry.raises /\ query_entry.sandbox_ms > 2 * query_entry.duration_ms

\* the same, for an operation that has a baseline duration
MoreThanDoubleBaseline(query_entry) ==
    query_entry.duration_ms > 0 /\ MoreThanDouble(query_entry)

\* the breaking changes expected of a log: a critical one per failed
\* operation, then a high one per operation that `Slow` selects
ExpectedSeverities(query_log, Slow(_)) ==
    LET failed == SelectSeq(query_log, Raised)
        slow == SelectSeq(query_log, Slow)
    IN [i \in 1..Len(failed) |-> <<"critical", failed[i].query_id>>]
       \o [i \in 1..Len(slow) |-> <<"high", slow[i].query_id>>]

\* C20 (as amended): detect_breaking_changes returns exactly one breaking
\* change of severity critical for each failed operation and exactly one of
\* severity high for each successful operation with a positive baseline
\* duration whose sandbox duration is more than double that baseline, and
\* nothing else; an operation at exactly double its baseline is not reported,
\* nor is an operation whose baseline duration is 0.
C20_BreakingChanges ==
    Detected =>
        Severities(breaking_changes.list)
            = ExpectedSeverities(sim_input.query_log, MoreThanDoubleBaseline)

\* C20 witness: a log with an operation at exactly double its baseline and
\* one above double; only the second is reported, as high.
C20_Witness ==
    /\ Detected
    /\ Len(sim_input.query_log) = 2
    /\ Ran(sim_input.query_log[1])
    /\ sim_input.query_log[1].duration_ms = 50 /\ sim_input.query_log[1].sandbox_ms = 100
    /\ MoreThanDoubleBaseline(sim_input.query_log[2])
    /\ Severities(breaking_changes.list) = << <<"high", sim_input.query_log[2].query_id>> >>

\* C20 as stated: every successful operation whose sandbox duration is more
\* than double its baseline duration is reported as high, a baseline of 0
\* included.
C20_Original ==
    Detected =>
        Severities(breaking_changes.list)
            = ExpectedSeverities(sim_input.query_log, MoreThanDouble)

\* C19: per-operation timeout. If one replayed operation hangs, replay_queries
\* still terminates: the hung operation is recorded as failed and the rest of
\* the batch is replayed, so the call returns results that cover the log.
C19_HangBecomesFailure ==
    (replay_run.state = "hung")
        ~> (/\ replay_run.state = "returned"
            /\ replay_results.total_queries = Len(sim_input.query_log)
            /\ replay_results.failed >= 1)

\* C21: destroy is idempotent. A destroy_sandbox call on an id that is not in
\* the registry (destroyed by an earlier call, or never created) or whose
\* environment an earlier call already stopped returns without an error,
\* stops no container and leaves the registry as it was.
C21_DestroyIdempotent ==
    [][\A sandbox_id \in SandboxIds, outcome \in DestroyOutcomes :
          (/\ DestroySandbox(sandbox_id, outcome)
           /\ (\/ sandbox_id \notin DOMAIN active_sandboxes
               \/ ~ContainerFound(containers, sandbox_id,
                                  active_sandboxes[sandbox_id].container_id)))
          => /\ active_sandboxes' = active_sandboxes
             /\ containers' = containers
             /\ result'.outcome = "returned"]_vars

\* C21 witness: a destroy_sandbox call has returned while no environment
\* runs, the environment of the one registered sandbox having been stopped
\* before and a leaked one never having been registered: the call was one on
\* a destroyed or never created id.
C21_Witness ==
    /\ result = Call("destroy_sandbox", "r1", "ok", "returned")
    /\ DOMAIN active_sandboxes = {SandboxId("r1", 0)}
    /\ containers = << >>
    /\ now = 0

\* C22: create is all or nothing. A create_sandbox call either returns the
\* handle of an environment that runs and is registered in the active-sandbox
\* registry, or it fails (with a timeout error when the environment is not
\* ready in time), and a failed call adds no handle to the registry and
\* leaves no running environment that it started.
C22_CreateAllOrNothing ==
    [][/\ \A recommendation_id \in Proposals, tenant_id \in Tenants, outcome \in RunOutcomes :
             (/\ CreateBegin(recommendation_id, tenant_id, outcome)
              /\ result'.outcome = "raised")
             => /\ active_sandboxes' = active_sandboxes
                /\ containers' = containers
       /\ \A call \in create_calls, outcome \in WaitOutcomes :
             CreateFinish(call, outcome)
             => IF result'.outcome = "returned"
                THEN /\ call.sandbox_id \in DOMAIN active_sandboxes'
                     /\ active_sandboxes'[call.sandbox_id].container_id = call.container_id
                     /\ ContainerFound(containers', call.sandbox_id, call.container_id)
                ELSE /\ active_sandboxes' = active_sandboxes
                     /\ ~ContainerFound(containers', call.sandbox_id, call.container_id)]_vars

\* the samples of a deployment's health time series that breached the
\* threshold
BreachingSamples(deployment) ==
    {i \in 1..Len(deployment.metrics) : Breaches(deployment.metrics[i])}

\* C23 (as amended): a Deployment's status is rolled-back only after a rollback
\* trigger: in every reachable state, status = rolled-back implies that
\* rollback_reason is set and that the health time series contains a sample
\* that breached the threshold or that no health sample arrived within the
\* grace window.
C23_RollbackHasCause ==
    \A id \in DOMAIN deployments :
        deployments[id].status = "rolled_back"
        => /\ deployments[id].rollback_reason # NoReason
           /\ \/ BreachingSamples(deployments[id]) # {}
              \/ deployments[id].rollback_reason = "no health sample"

\* C23 witness: a deployment rolled back for a missing health sample after a
\* sample within the threshold, and another rolled back for a breaching one.
C23_Witness ==
    /\ "r1" \in DOMAIN deployments /\ "r2" \in DOMAIN deployments
    /\ deployments["r1"].status = "rolled_back"
    /\ Len(deployments["r1"].metrics) = 1
    /\ BreachingSamples(deployments["r1"]) = {}
    /\ deployments["r2"].status = "rolled_back"
    /\ BreachingSamples(deployments["r2"]) = {1}

\* C23 as stated: status = rolled-back implies that the health time series
\* contains a breaching sample and that rollback_reason is set.
C23_Original ==
    \A id \in DOMAIN deployments :
        deployments[id].status = "rolled_back"
        => /\ BreachingSamples(deployments[id]) # {}
           /\ deployments[id].rollback_reason # NoReason

\* C24: a deployment that is in progress and gets a health sample whose error
\* rate is above the 5% threshold (8%, say) moves to rolled-back with a
\* non-empty rollback_reason, and a rolled-back deployment never becomes
\* completed.
C24_BreachRollsBack ==
    [][\A id \in DOMAIN deployments :
          /\ (/\ deployments[id].status = "in_progress"
              /\ Len(deployments'[id].metrics) = Len(deployments[id].metrics) + 1
              /\ deployments'[id].metrics[Len(deployments'[id].metrics)].error_rate
                    > ErrorRateThreshold)
             => /\ deployments'[id].status = "rolled_back"
                /\ deployments'[id].rollback_reason # NoReason
          /\ deployments[id].status = "rolled_back"
             => deployments'[id].status = "rolled_back"]_vars

\* C24 witness: the scenario's deployment: a sample within the threshold, then
\* one with an error rate of 8%, and the status rolled-back as the sample
\* arrives.
C24_Witness ==
    /\ result = Call("deploy", "r1", "sample", "rolled_back")
    /\ deployments["r1"].metrics = <<DeploymentMetrics(5), DeploymentMetrics(8)>>
    /\ deployments["r1"].status = "rolled_back"
    /\ deployments["r1"].rollback_reason # NoReason

\* C25: failure before cutover. An execute_recommendation call always yields a
\* Deployment, also when the YAML edit, the migration generation or the
\* deployment raises; for a proposal kind whose YAML edit raises that
\* Deployment has status failed and no part of the change is produced or
\* deployed; rolled-back is reached only by a rollback, which records its
\* reason.
C25_FailedBeforeCutover ==
    result.op = "execute_recommendation" =>
        LET e == executions[result.id]
        IN /\ result.outcome = "returned"
           /\ e.deployment # NotYet
           /\ ~YamlSupported(result.arg) =>
                /\ e.deployment.status = "failed"
                /\ ~e.yaml_changes /\ e.migrations = "none" /\ ~e.deploy_called
           /\ e.deployment.status = "rolled_back" => e.deployment.rollback_reason # NoReason

\* the WorkflowState of a proposal, if it has one
WorkflowOf(id) == IF id \in Workflows THEN active_workflows[id] ELSE NotYet

\* the registry entries of the sandboxes of a proposal
SandboxesOf(id) ==
    [x \in {y \in DOMAIN active_sandboxes : active_sandboxes[y].recommendation_id = id}
        |-> active_sandboxes[x]]

\* C26: isolation between proposals. A start_workflow call, a submit_approval
\* call (one that records a decision or one that fails) and a simulation (one
\* that returns or one that fails) for a proposal leave the WorkflowState and
\* the sandbox-registry entries of every other proposal as they were.
C26_Isolation ==
    [][result'.op \in {"start_workflow", "submit_approval", "simulate_recommendation"}
          => \A other \in IsoProposals \ {result'.id} :
                /\ WorkflowOf(other)' = WorkflowOf(other)
                /\ SandboxesOf(other)' = SandboxesOf(other)]_vars

\* C26 witness: a simulation of r1 has failed, leaving its sandbox in the
\* registry, while r2 has a workflow with a decision on record and a sandbox
\* of its own in the registry.
C26_Witness ==
    /\ result.op = "simulate_recommendation"
    /\ result.id = "r1"
    /\ result.outcome = "ImportError"
    /\ SandboxesOf("r1") # << >>
    /\ SandboxesOf("r2") # << >>
    /\ "r2" \in Workflows
    /\ Len(active_workflows["r2"].approvals) = 1
    /\ active_workflows["r2"].current_state = "rejected"

\* the WorkflowState that running the calls one after the other gives
SerialSubmits(base, first, second) == SubmitEffect(SubmitEffect(base, first), second)

\* C27: two submit_approval calls issued concurrently for the same proposal do
\* not interleave: no call is ever seen between its append and its decision,
\* and once both have returned the WorkflowState is the one that running them
\* one after the other, in one of the two orders, gives: both decisions are
\* on record and the phase is that of the serial execution.
C27_SerialSubmits ==
    /\ \A i \in 1..Len(submit_calls.calls) : submit_calls.calls[i].pc \in {"pending", "done"}
    /\ (/\ result.op = "submit_approval"
        /\ Len(submit_calls.calls) = 2
        /\ \A i \in 1..2 : submit_calls.calls[i].pc = "done")
       => LET first == submit_calls.calls[1]
              second == submit_calls.calls[2]
              workflow == active_workflows[submit_calls.id]
          IN /\ Len(workflow.approvals) = Len(submit_calls.base.approvals) + 2
             /\ \/ workflow = SerialSubmits(submit_calls.base, first, second)
                \/ workflow = SerialSubmits(submit_calls.base, second, first)

\* C27 witness: an approve and a reject were issued together on a workflow
\* that requires one approval; the event loop ran the reject first, and the
\* workflow holds both decisions in that order, in phase rejected.
C27_Witness ==
    /\ result.op = "submit_approval"
    /\ Len(submit_calls.calls) = 2
    /\ \A i \in 1..2 : submit_calls.calls[i].pc = "done"
    /\ submit_calls.base.approvals = <<>>
    /\ submit_calls.base.required_approvals = 1
    /\ submit_calls.calls[1].status = "approved"
    /\ submit_calls.calls[2].status = "rejected"
    /\ submit_calls.calls[1].approver_id # submit_calls.calls[2].approver_id
    /\ active_workflows[submit_calls.id].approvals[1].status = "rejected"
    /\ active_workflows[submit_calls.id].approvals[2].status = "approved"
    /\ active_workflows[submit_calls.id].current_state = "rejected"

\* the registered sandboxes whose environment a step stops
StoppedBy(registry, running, running_after) ==
    {x \in DOMAIN registry :
        /\ ContainerFound(running, x, registry[x].container_id)
        /\ ~ContainerFound(running_after, x, registry[x].container_id)}

\* C28: registry mutations are atomic with respect to cleanup. Under every
\* interleaving of create_sandbox, destroy_sandbox and cleanup_all, a
\* destroy_sandbox or cleanup_all call that stops the environment of a
\* registered sandbox removes its entry (so that the registry keeps no entry
\* for an environment that was stopped), and when cleanup_all returns every
\* sandbox that was registered when it started is destroyed: its entry is
\* gone and its environment no longer runs.
C28_AtomicCleanup ==
    [][/\ \A sandbox_id \in SandboxIds, outcome \in DestroyOutcomes :
             DestroySandbox(sandbox_id, outcome)
             => StoppedBy(active_sandboxes, containers, containers')
                    \cap DOMAIN active_sandboxes' = {}
       /\ \A outcome_of \in [DOMAIN active_sandboxes -> DestroyOutcomes] :
             CleanupAll(outcome_of)
             => /\ StoppedBy(active_sandboxes, containers, containers')
                       \cap DOMAIN active_sandboxes' = {}
                /\ DOMAIN active_sandboxes' \cap DOMAIN active_sandboxes = {}
                /\ \A sandbox_id \in DOMAIN active_sandboxes :
                      ~ContainerFound(containers', sandbox_id,
                                      active_sandboxes[sandbox_id].container_id)]_vars

C30_LeakBackstop ==
    (<>[](sim_calls = {}) /\ <>[][Tick]_vars)
        => \A sandbox_id \in SandboxIds :
               (/\ sandbox_id \in DOMAIN active_sandboxes
                /\ now - active_sandboxes[sandbox_id].created_at > SandboxTTL)
                   ~> (sandbox_id \notin DOMAIN active_sandboxes)

\* C31: delivery failures are non-fatal. Whether or not the notification of a
\* start_workflow call could be delivered, the call returns to its caller, the
\* workflow is registered, and its phase is approved for the safe tier and
\* review for the tiers low to critical.
C31_DeliveryNonFatal ==
    [][result'.op = "start_workflow" /\ result' # result =>
          /\ result'.outcome = "returned"
          /\ result'.id \in DOMAIN active_workflows'
          /\ active_workflows'[result'.id].current_state =
                 IF result'.arg = "safe" THEN "approved" ELSE "review"]_vars

\* a percentage within 5 points of zero
AboutZero(x) == FLess(FAbs(x), FromInt(5))

\* predicted improvement and observed regression, or the reverse
SignsDisagree(predicted, actual) ==
    \/ FLess(FromInt(0), predicted) /\ FLess(actual, FromInt(0))
    \/ FLess(predicted, FromInt(0)) /\ FLess(FromInt(0), actual)

\* C32: prediction accuracy is in [0,1] and follows the case table: it is one
\* of 1.0, 0.0 and 0.5; it is 1.0 when predicted and observed improvement are
\* both about 0 (within 5 points) and their signs do not disagree, and when
\* they are equal and not negative; 0.0 when their signs disagree (and they
\* are not both about 0); 0.5 when neither is the case and they are not both
\* non-negative.
C32_AccuracyTable ==
    feedback.call # "none" =>
        LET predicted == feedback.predicted
            actual == feedback.actual
            accuracy == feedback.accuracy
        IN /\ ~FLess(accuracy, FromInt(0)) /\ ~FLess(FromInt(1), accuracy)
           /\ accuracy \in {FromInt(1), FromInt(0), Frac(1, 2)}
           /\ AboutZero(predicted) /\ AboutZero(actual) /\ ~SignsDisagree(predicted, actual)
                 => accuracy = FromInt(1)
           /\ predicted = actual /\ ~FLess(predicted, FromInt(0)) => accuracy = FromInt(1)
           /\ SignsDisagree(predicted, actual) /\ ~(AboutZero(predicted) /\ AboutZero(actual))
                 => accuracy = FromInt(0)
           /\ /\ ~SignsDisagree(predicted, actual)
              /\ ~(AboutZero(predicted) /\ AboutZero(actual))
              /\ FLess(predicted, FromInt(0)) \/ FLess(actual, FromInt(0))
                 => accuracy = Frac(1, 2)

\* C40: collect_deployment_feedback returns a FeedbackData for every completed
\* and every rolled-back deployment; for a rolled-back one the record has
\* outcome rolled_back and a non-empty list of missed issues, for a completed
\* one outcome success.
C40_FeedbackForEndedDeployments ==
    (/\ feedback.call = "collect_deployment_feedback"
     /\ feedback.deployment.status \in {"completed", "rolled_back"})
        => /\ feedback.outcome = "returned"
           /\ feedback.deployment.status = "rolled_back"
                 => /\ feedback.data.outcome = "rolled_back"
                    /\ feedback.data.missed_issues # <<>>
           /\ feedback.deployment.status = "completed"
                 => feedback.data.outcome = "success"

\* C33: tenant isolation of the ML service. A train or predict request whose
\* body names another tenant than its token is answered 403, a request that
\* names its own tenant is not, no training run and no prediction is ever
\* made for a tenant other than the token's, and when a request has ended,
\* rejected or served, its tenant context is cleared; while a train request is
\* in its pipeline its context is the token's tenant.
C33_TenantIsolation ==
    /\ \A work \in ml.work : work.tenant_id = work.token_tenant
    /\ \A request \in ml.training : request.tenant_context = request.token_tenant
    /\ ml.response.route # "none" =>
          /\ ml.response.status = 403
                <=> UuidStr(ml.response.body_tenant) # ml.response.token_tenant
          /\ ml.response.tenant_context = NoTenant

\* C33 witness: tenant a's token has trained and predicted for tenant a, and
\* its train request for tenant b was answered 403 with the context cleared
\* and nothing done for tenant b.
C33_Witness ==
    /\ ml.response = MlResponse("train", "aaaaaaaa", "bbbbbbbb", 403, NoTenant)
    /\ MlWork("train", "aaaaaaaa", "aaaaaaaa") \in ml.work
    /\ MlWork("predict", "aaaaaaaa", "aaaaaaaa") \in ml.work
    /\ \A work \in ml.work : work.tenant_id # "bbbbbbbb"

\* C34: a proposal whose ImpactReport has verdict reject is never
\* auto-approved: a workflow that start_workflow leaves in approved, with no
\* human decision, was started from a report whose verdict is not reject.
C34_RejectNeverAutoApproved ==
    (/\ result.op = "start_workflow"
     /\ report # NotYet
     /\ active_workflows[result.id].current_state = "approved")
        => report.recommendation_action # "reject"

\* C35: restarting a workflow cannot bypass a decision. A start_workflow call
\* for a proposal that has a workflow keeps its recorded approvals and its
\* phase, and no call takes a rejected workflow to approved.
C35_RestartKeepsDecisions ==
    [][/\ (result'.op = "start_workflow" /\ result'.id \in DOMAIN active_workflows) =>
             /\ active_workflows'[result'.id].approvals = active_workflows[result'.id].approvals
             /\ active_workflows'[result'.id].current_state
                    = active_workflows[result'.id].current_state
       /\ \A id \in DOMAIN active_workflows :
             active_workflows[id].current_state = "rejected"
                 => active_workflows'[id].current_state # "approved"]_vars

\* a replay in which every operation succeeded and ran faster in the sandbox
\* than its recorded baseline
AllFaster(query_log) ==
    /\ query_log # <<>>
    /\ \A i \in 1..Len(query_log) :
          ~query_log[i].raises /\ query_log[i].sandbox_ms < query_log[i].duration_ms

\* the risk score of a recommendation with no failure and no performance term
RiskWithoutPerformance(recommendation) ==
    FMin(FromInt((IF recommendation.migration_required THEN 15 ELSE 0)
                 + recommendation.declared_breaking * 5
                 + (IF Len(ExtractAffectedEntities(recommendation)) > 3 THEN 10 ELSE 0)),
         FromInt(100))

\* C36: the replay engine and the impact analyzer agree on the sign of a
\* performance change. For a replay in which every operation succeeds and
\* every sandbox duration is shorter than its baseline, the risk score carries
\* no performance-degradation penalty, no operation is counted as degraded and
\* the verdict is not reject.
C36_SignAgreement ==
    (Analyzed /\ AllFaster(sim_input.query_log)) =>
        /\ report.risk_score = RiskWithoutPerformance(sim_input.recommendation)
        /\ report.performance.queries_degraded = 0
        /\ report.recommendation_action # "reject"

\* C37: after a destroy_sandbox call on an id has returned, the id is not in
\* the active-sandbox registry, whether stopping the container and deleting
\* the data directory succeeded or raised.
C37_DestroyUnregisters ==
    [][\A sandbox_id \in SandboxIds, outcome \in DestroyOutcomes :
          DestroySandbox(sandbox_id, outcome)
              => sandbox_id \notin DOMAIN active_sandboxes']_vars

\* C38: no use after teardown. apply_changes and copy_production_data go
\* ahead only for a sandbox that is in the active registry and has not been
\* torn down; called with an id that was destroyed (a destroy_sandbox call
\* removed it, or stopped its environment) or never created they fail with
\* the not-found error, and in both cases they leave the registry and the
\* running environments as they were.
C38_NoUseAfterTeardown ==
    [][\A sandbox_id \in SandboxIds :
          (ApplyChanges(sandbox_id) \/ \E tenant \in Tenants : CopyProductionData(sandbox_id, tenant))
          => /\ result'.outcome = IF SandboxLive(active_sandboxes, containers, sandbox_id)
                                  THEN "returned" ELSE "ValueError"
             /\ active_sandboxes' = active_sandboxes
             /\ containers' = containers]_vars

\* C39: once a workflow is approved and its scheduled_execution is set, a
\* later submit_approval call for the proposal with a decision other than
\* reject, by any approver, leaves scheduled_execution and the phase as they
\* were.
C39_ScheduleIsKept ==
    [][\A id \in DOMAIN active_workflows :
          (/\ active_workflows[id].current_state = "approved"
           /\ active_workflows[id].scheduled_execution # NoTime
           /\ result'.op = "submit_approval"
           /\ result'.id = id
           /\ result'.arg # "rejected")
          => /\ active_workflows'[id].scheduled_execution
                    = active_workflows[id].scheduled_execution
             /\ active_workflows'[id].current_state = "approved"]_vars

====
